---- MODULE Spec2Model ----
(***************************************************************************)
(* The self-healing disk cache of app/services/api_service.py (ApiService) *)
(* and the background monitor of app/services/cache_monitor.py             *)
(* (CacheHealthMonitor), as a state machine.                               *)
(*                                                                         *)
(* A Python dict is a TLA+ function whose DOMAIN is its set of keys; a     *)
(* list is a sequence.  dict.get(k, d) is Get(d, k, default).  Every       *)
(* handler is cut into one step per file read, file write and upstream     *)
(* request, because nothing in the code holds a lock between them.         *)
(***************************************************************************)
EXTENDS Integers, Sequences, FiniteSets, TLC

VARIABLES
    file,       \* the cache file on disk: [state, doc]
    now,        \* datetime.now(), in hours
    pc,         \* where each request thread stands
    loc,        \* the locals of each request thread's running handler
    mpc,        \* where the monitor thread stands inside one tick
    mloc,       \* the locals of the monitor's tick
    monitor,    \* the CacheHealthMonitor object and the loop threads it started
    rate_limiter \* the global RateLimiter object of rate_limiter.py line 66

vars == <<file, now, pc, loc, mpc, mloc, monitor, rate_limiter>>

(***************************************************************************)
(* Bounds of the model.                                                    *)
(***************************************************************************)
\* the clock stops advancing once it has passed MaxTime (hours)
MaxTime == 48
\* start_monitoring is not called once MaxLoops loop threads have been started
MaxLoops == 2

\* the clock steps that can pass between two readings of the clock inside
\* one call of check_rate_limit, and the clock steps SpecLimiter runs for
MaxDrift == 1
LimiterSpan == 5

(***************************************************************************)
(* Program constants.                                                      *)
(***************************************************************************)
\* a slip: one attempt more than the code makes
max_retries_one_more == 3 + 1

\* self.cache_duration = timedelta(hours=24)
cache_duration == 24
\* max_retries = 3
max_retries == 3

\* a slip: the list of known-empty batches is left empty
known_empty_batches_none == {}
known_empty_batches_and_b1 == {"batch22-26", "b1"}

\* known_empty_batches = ['batch22-26']
known_empty_batches == {"batch22-26"}

(***************************************************************************)
(* Python dicts.                                                           *)
(***************************************************************************)
EmptyMap == [k \in {} |-> k]

Get(d, k, default) == IF k \in DOMAIN d THEN d[k] ELSE default

Put(d, k, v) == [x \in DOMAIN d \cup {k} |-> IF x = k THEN v ELSE d[x]]

Del(d, k) == [x \in DOMAIN d \ {k} |-> d[x]]

\* bool(x) of a dict or a list
Truthy(x) == DOMAIN x # {}

Range(list) == {list[i] : i \in DOMAIN list}

(***************************************************************************)
(* Student records: the fields the validator reads.  A missing or null     *)
(* string field is "", a null rating is <<>> and a number r is <<r>>.      *)
(***************************************************************************)
S1 == [id |-> "1", leetcodeUsername |-> "u1", name |-> "n1", section |-> "A",
       rollNumber |-> "r1", rating |-> <<1500>>, totalSolved |-> 9,
       easySolved |-> 3, mediumSolved |-> 3, hardSolved |-> 3,
       attendedContestsCount |-> 5]

S2 == [id |-> "2", leetcodeUsername |-> "u2", name |-> "n2", section |-> "B",
       rollNumber |-> "r2", rating |-> <<>>, totalSolved |-> 0,
       easySolved |-> 0, mediumSolved |-> 0, hardSolved |-> 0,
       attendedContestsCount |-> 0]

\* a record whose only defect is a rating of 5000
SBadRating == [S1 EXCEPT !.id = "3", !.leetcodeUsername = "u3", !.rating = <<5000>>]

\* a record whose totalSolved is null: the extra field names the counters
\* (totalSolved, easySolved, mediumSolved, hardSolved, attendedContestsCount)
\* that are null
SNullTotal == ("nulls" :> {"totalSolved"}) @@ [S1 EXCEPT !.id = "4", !.leetcodeUsername = "u4"]

\* upstream answers {"students": [...]}, or {} when the field is missing
NoKeyRS == EmptyMap
EmptyRS == [students |-> <<>>]
GoodRS  == [students |-> <<S1, S2>>]
BadRS   == [students |-> <<S1, SBadRating>>]

\* len(x.get('students', []))
student_count(rs) == Len(Get(rs, "students", <<>>))

(***************************************************************************)
(* _validate_student_data_quality: the issues of one record, in the order  *)
(* the code appends them, and of a list of records.  The code returns the  *)
(* issues joined by "; ", or None when there is none: the caller only      *)
(* tests the truth value, which is that of the list.                       *)
(***************************************************************************)
Negative(s) == s.easySolved < 0 \/ s.mediumSolved < 0 \/ s.hardSolved < 0 \/ s.totalSolved < 0

\* a slip: one issue for each negative counter
student_issues_per_counter(s) ==
    (IF s.leetcodeUsername = "" THEN <<"Missing leetcodeUsername">> ELSE <<>>)
    \o (IF s.name = "" THEN <<"Missing name">> ELSE <<>>)
    \o (IF s.rating # <<>> /\ (s.rating[1] < 0 \/ s.rating[1] > 4000)
        THEN <<"Suspicious rating">> ELSE <<>>)
    \o (IF s.totalSolved # s.easySolved + s.mediumSolved + s.hardSolved
        THEN <<"Problem count mismatch">> ELSE <<>>)
    \o (IF s.totalSolved > 3000 THEN <<"Unrealistic total problems">> ELSE <<>>)
    \o (IF s.easySolved < 0 THEN <<"Negative problem counts">> ELSE <<>>)
    \o (IF s.mediumSolved < 0 THEN <<"Negative problem counts">> ELSE <<>>)
    \o (IF s.hardSolved < 0 THEN <<"Negative problem counts">> ELSE <<>>)
    \o (IF s.totalSolved < 0 THEN <<"Negative problem counts">> ELSE <<>>)
    \o (IF s.attendedContestsCount < 0 \/ s.attendedContestsCount > 1000
        THEN <<"Suspicious contest count">> ELSE <<>>)
    \o (IF s.section = "" THEN <<"Missing section">> ELSE <<>>)
    \o (IF s.rollNumber = "" THEN <<"Missing roll number">> ELSE <<>>)

student_issues(s) ==
    (IF s.leetcodeUsername = "" THEN <<"Missing leetcodeUsername">> ELSE <<>>)
    \o (IF s.name = "" THEN <<"Missing name">> ELSE <<>>)
    \o (IF s.rating # <<>> /\ (s.rating[1] < 0 \/ s.rating[1] > 4000)
        THEN <<"Suspicious rating">> ELSE <<>>)
    \o (IF s.totalSolved # s.easySolved + s.mediumSolved + s.hardSolved
        THEN <<"Problem count mismatch">> ELSE <<>>)
    \o (IF s.totalSolved > 3000 THEN <<"Unrealistic total problems">> ELSE <<>>)
    \o (IF Negative(s) THEN <<"Negative problem counts">> ELSE <<>>)
    \o (IF s.attendedContestsCount < 0 \/ s.attendedContestsCount > 1000
        THEN <<"Suspicious contest count">> ELSE <<>>)
    \o (IF s.section = "" THEN <<"Missing section">> ELSE <<>>)
    \o (IF s.rollNumber = "" THEN <<"Missing roll number">> ELSE <<>>)

\* lines 172-193: the arithmetic and the comparisons on the counters raise
\* TypeError when one of them is None
validator_raises(students) ==
    \E i \in DOMAIN students :
        "nulls" \in DOMAIN students[i] /\ students[i]["nulls"] # {}

RECURSIVE validate_student_data_quality(_, _)
validate_student_data_quality(students, batch) ==
    IF students = <<>> THEN <<>>
    ELSE student_issues(Head(students))
         \o validate_student_data_quality(Tail(students), batch)

(***************************************************************************)
(* The cache file.  state is "absent" or "ok"; doc is the JSON document    *)
(* {"last_fetch_time": ..., "data": {category: ...}}.  last_fetch_time is  *)
(* null, a string datetime.fromisoformat rejects, or an ISO time (hours).  *)
(***************************************************************************)
NullTime == [kind |-> "null", t |-> 0]
BadTime  == [kind |-> "unparsable", t |-> 0]
IsoTime(t) == [kind |-> "iso", t |-> t]

EmptyDoc == [last_fetch_time |-> NullTime, data |-> EmptyMap]
AbsentFile == [state |-> "absent", doc |-> EmptyDoc]
OkFile(doc) == [state |-> "ok", doc |-> doc]

_load_cache(f) == IF f.state = "ok" THEN f.doc ELSE EmptyDoc

_save_cache(cache_data) == OkFile(cache_data)

\* a slip: the boundary now = last_fetch_time + 24 h still counts as valid
_is_cache_valid_inclusive(cache_data, t) ==
    /\ cache_data.last_fetch_time.kind = "iso"
    /\ t - cache_data.last_fetch_time.t <= cache_duration

_is_cache_valid(cache_data, t) ==
    /\ cache_data.last_fetch_time.kind = "iso"
    /\ t - cache_data.last_fetch_time.t < cache_duration

_get_from_cache(f, key, t) ==
    IF _is_cache_valid(_load_cache(f), t)
    THEN Get(_load_cache(f).data, key, EmptyMap)
    ELSE EmptyMap

\* a slip: the write does not refresh last_fetch_time
_update_cache_keeps_time(cache_data, key, data, t) ==
    [last_fetch_time |-> cache_data.last_fetch_time, data |-> Put(cache_data.data, key, data)]

\* lines 59-62 of _update_cache: the mutation between its load and its save
_update_cache(cache_data, key, data, t) ==
    [last_fetch_time |-> IsoTime(t), data |-> Put(cache_data.data, key, data)]

(***************************************************************************)
(* get_cache_health_status, lines 205-249.  The lists of batches are sets: *)
(* the keys of a dict are distinct, and no caller reads their order.       *)
(***************************************************************************)
Students(cache_data) == Get(cache_data.data, "students", EmptyMap)

\* a slip: the audit forgets the known-empty exemption
health_class_no_exemption(batch, data) ==
    IF student_count(data) > 0
    THEN IF validate_student_data_quality(Get(data, "students", <<>>), batch) # <<>>
         THEN "problematic"
         ELSE "healthy"
    ELSE "problematic"

\* lines 226-241: the class of one batch in the health audit
health_class(batch, data) ==
    IF student_count(data) > 0
    THEN IF validate_student_data_quality(Get(data, "students", <<>>), batch) # <<>>
         THEN "problematic"
         ELSE "healthy"
    ELSE IF batch \in known_empty_batches
         THEN "empty"
         ELSE "problematic"

\* lines 232-236: the entry of data_quality_issues for a batch with issues
data_quality_entry(batch, data) ==
    [batch |-> batch,
     issues |-> validate_student_data_quality(Get(data, "students", <<>>), batch),
     student_count |-> student_count(data)]

\* line 229: the validator raises inside the audit, which has no try
health_raises(cache_data) ==
    \E b \in DOMAIN Students(cache_data) :
        validator_raises(Get(Students(cache_data)[b], "students", <<>>))

BatchesOfClass(cache_data, class) ==
    {b \in DOMAIN Students(cache_data) : health_class(b, Students(cache_data)[b]) = class}

\* a slip: the test for an empty cache comes first
overall_health_empty_first(problematic_batches, healthy_batches) ==
    IF healthy_batches = 0 THEN "empty"
    ELSE IF problematic_batches # {} THEN "needs_attention"
    ELSE "healthy"

\* lines 243-247
overall_health(problematic_batches, healthy_batches) ==
    IF problematic_batches # {} THEN "needs_attention"
    ELSE IF healthy_batches = 0 THEN "empty"
    ELSE "healthy"

\* lines 209-214: the counters and lists before the loop
NewScan == [total_batches |-> 0, healthy_batches |-> 0,
            problematic_batches |-> <<>>, empty_batches |-> <<>>]

\* a slip: a batch with issues is also counted as healthy
health_step_counts_problematic(h, batch, data) ==
    LET class == health_class(batch, data)
    IN [total_batches |-> h.total_batches + 1,
        healthy_batches |-> IF class \in {"healthy", "problematic"}
                            THEN h.healthy_batches + 1 ELSE h.healthy_batches,
        problematic_batches |-> IF class = "problematic"
                                THEN Append(h.problematic_batches, batch)
                                ELSE h.problematic_batches,
        empty_batches |-> IF class = "empty"
                          THEN Append(h.empty_batches, batch) ELSE h.empty_batches]

\* lines 221-241: one pass of the loop body, for one batch
health_step(h, batch, data) ==
    LET class == health_class(batch, data)
    IN [total_batches |-> h.total_batches + 1,
        healthy_batches |-> IF class = "healthy"
                            THEN h.healthy_batches + 1 ELSE h.healthy_batches,
        problematic_batches |-> IF class = "problematic"
                                THEN Append(h.problematic_batches, batch)
                                ELSE h.problematic_batches,
        empty_batches |-> IF class = "empty"
                          THEN Append(h.empty_batches, batch) ELSE h.empty_batches]

\* line 220: the loop over the items of data["students"], in the dict's
\* order (here an order fixed by CHOOSE; no result depends on it but the
\* order of the lists)
RECURSIVE health_scan(_, _, _)
health_scan(students, todo, h) ==
    IF todo = {} THEN h
    ELSE LET batch == CHOOSE b \in todo : TRUE
         IN health_scan(students, todo \ {batch}, health_step(h, batch, students[batch]))

HealthScan(cache_data) ==
    health_scan(Students(cache_data), DOMAIN Students(cache_data), NewScan)

\* problematic_batches and empty_batches are the sets of the elements of the
\* two lists; the lists themselves are problematic_list and empty_list
get_cache_health_status(cache_data) ==
    [overall_health |-> overall_health(Range(HealthScan(cache_data).problematic_batches),
                                       HealthScan(cache_data).healthy_batches),
     total_batches |-> HealthScan(cache_data).total_batches,
     healthy_batches |-> HealthScan(cache_data).healthy_batches,
     problematic_batches |-> Range(HealthScan(cache_data).problematic_batches),
     empty_batches |-> Range(HealthScan(cache_data).empty_batches),
     problematic_list |-> HealthScan(cache_data).problematic_batches,
     empty_list |-> HealthScan(cache_data).empty_batches,
     data_quality_issues |-> {data_quality_entry(b, Students(cache_data)[b]) :
                                 b \in {x \in BatchesOfClass(cache_data, "problematic") :
                                           student_count(Students(cache_data)[x]) > 0}},
     last_validation |-> cache_data.last_fetch_time]

(***************************************************************************)
(* auto_validate_cache, lines 110-151.                                     *)
(***************************************************************************)
\* a slip: the repair pass forgets the known-empty exemption
av_problematic_no_exemption(batch, data) ==
    \/ student_count(data) = 0
    \/ /\ student_count(data) > 0
       /\ validate_student_data_quality(Get(data, "students", <<>>), batch) # <<>>

\* a slip: the repair pass looks only for batches with no record
av_problematic_empty_only(batch, data) ==
    student_count(data) = 0 /\ batch \notin known_empty_batches

\* lines 123-137: whether the repair pass lists the batch as problematic
av_problematic(batch, data) ==
    \/ student_count(data) = 0 /\ batch \notin known_empty_batches
    \/ /\ student_count(data) > 0
       /\ validate_student_data_quality(Get(data, "students", <<>>), batch) # <<>>

\* line 134: the validator raises inside the pass; the except of lines
\* 150-151 ends the pass before it has deleted or saved anything
av_raises(cache_data, t) ==
    /\ _is_cache_valid(cache_data, t)
    /\ "students" \in DOMAIN cache_data.data
    /\ \E b \in DOMAIN cache_data.data["students"] :
          validator_raises(Get(cache_data.data["students"][b], "students", <<>>))

\* lines 113-137: the batches the pass will delete from the document it loaded
av_problematic_batches(cache_data, t) ==
    IF ~_is_cache_valid(cache_data, t) THEN {}
    ELSE IF av_raises(cache_data, t) THEN {}
    ELSE IF "students" \notin DOMAIN cache_data.data THEN {}
    ELSE {b \in DOMAIN cache_data.data["students"] :
             av_problematic(b, cache_data.data["students"][b])}

RECURSIVE DelAll(_, _)
DelAll(d, keys) ==
    IF keys = {} THEN d
    ELSE LET k == CHOOSE x \in keys : TRUE IN DelAll(Del(d, k), keys \ {k})

\* a slip: only one of the problematic batches is deleted
av_cleared_one_only(cache_data, problematic_batches) ==
    [cache_data EXCEPT !.data =
        Put(cache_data.data, "students",
            DelAll(cache_data.data["students"], {CHOOSE b \in problematic_batches : TRUE}))]

\* lines 142-145: the loaded document with the problematic batches deleted
av_cleared(cache_data, problematic_batches) ==
    [cache_data EXCEPT !.data =
        Put(cache_data.data, "students",
            DelAll(cache_data.data["students"], problematic_batches))]

\* the whole pass run without interruption, as ApiService.__init__ runs it
auto_validate_cache(f, t) ==
    IF av_problematic_batches(_load_cache(f), t) = {} THEN f
    ELSE _save_cache(av_cleared(_load_cache(f),
                                av_problematic_batches(_load_cache(f), t)))

(***************************************************************************)
(* make_graphql_request, lines 251-275: one upstream request.  The         *)
(* outcome is the server's: data, a transport failure (timeout, refused    *)
(* connection, HTTP error) or a GraphQL error envelope.  The function      *)
(* returns the data of an "ok" outcome and raises on the other two.        *)
(***************************************************************************)
Ok(data) == [kind |-> "ok", data |-> data]
TransportFailure == [kind |-> "transport", data |-> EmptyMap]
GraphQLError == [kind |-> "graphql_error", data |-> EmptyMap]

make_graphql_request_raises(outcome) == outcome.kind # "ok"

make_graphql_request(outcome) == outcome.data

(***************************************************************************)
(* Request threads.  pc is "idle" between calls and "done" when a call has  *)
(* returned or raised: the caller then reads loc.ret and the thread goes   *)
(* back to "idle".                                                         *)
(***************************************************************************)
Threads == {"w1", "w2"}

NoRet == [kind |-> "none", val |-> EmptyMap]
Returned(v) == [kind |-> "value", val |-> v]
Raised == [kind |-> "raise", val |-> EmptyMap]

IdleLoc == [op |-> "none", batch |-> "", title |-> "",
            username |-> "",             \* the argument username of get_student
            command |-> "none",          \* sys.argv[1] when the call is the admin tool's
            cached_data |-> EmptyMap,    \* the local cached_data
            attempt |-> 0,               \* the loop variable attempt
            thread |-> 0,                \* the Thread that stop_monitoring joins
            client_id |-> "",            \* the argument client_id of check_rate_limit
            result |-> EmptyMap,         \* the local result
            cache_data |-> EmptyDoc,     \* cache_data inside _update_cache
            ups |-> <<>>,                \* the upstream outcomes of this call, in order
            ret |-> NoRet]               \* what the call returned or raised

Free(t) == pc[t] = "idle"

\* no other thread is inside a handler and the monitor is between ticks
Quiet(t) == mpc = "sleep" /\ \A u \in Threads \ {t} : Free(u)

Return(t, l, v) ==
    /\ pc' = [pc EXCEPT ![t] = "done"]
    /\ loc' = [loc EXCEPT ![t] = [l EXCEPT !.ret = v]]

Goto(t, label, l) ==
    /\ pc' = [pc EXCEPT ![t] = label]
    /\ loc' = [loc EXCEPT ![t] = l]

\* the caller has taken the result
Finish(t) ==
    /\ pc[t] = "done"
    /\ pc' = [pc EXCEPT ![t] = "idle"]
    /\ loc' = [loc EXCEPT ![t] = IdleLoc]
    /\ UNCHANGED <<file, now, mpc, mloc, monitor, rate_limiter>>

(***************************************************************************)
(* get_students_by_batch, lines 300-396.                                   *)
(***************************************************************************)

\* lines 320-322: the test that guards the deletion of the stale entry.
\* cached_data is data["students"], a dict from batch to record set.
stale_entry_found(cached_data, batch) ==
    /\ "data" \in DOMAIN cached_data
    /\ "students" \in DOMAIN cached_data["data"]
    /\ batch \in Range(cached_data["data"]["students"])

\* a slip: any cached entry is served from the cache
is_cache_hit_any_entry(cached_data, batch) ==
    /\ Truthy(cached_data)
    /\ batch \in DOMAIN cached_data

\* a slip: a cached entry with no record is never served from the cache
is_cache_hit_nonempty_only(cached_data, batch) ==
    /\ Truthy(cached_data)
    /\ batch \in DOMAIN cached_data
    /\ student_count(cached_data[batch]) > 0

\* a slip: only the known-empty batches are served from the cache
is_cache_hit_known_empty_only(cached_data, batch) ==
    /\ Truthy(cached_data)
    /\ batch \in DOMAIN cached_data
    /\ batch \in known_empty_batches

\* lines 304-315: the cached entry is returned without an upstream request
is_cache_hit(cached_data, batch) ==
    /\ Truthy(cached_data)
    /\ batch \in DOMAIN cached_data
    /\ \/ student_count(cached_data[batch]) > 0
       \/ batch \in known_empty_batches

\* lines 303-323: the cache lookup, the first step of the call
GsbLookup(t, batch, conc) ==
    /\ Free(t)
    /\ conc \/ Quiet(t)
    /\ LET cached_data == _get_from_cache(file, "students", now)
           l == [IdleLoc EXCEPT !.op = "get_students_by_batch", !.batch = batch,
                                !.cached_data = cached_data]
       IN IF is_cache_hit(cached_data, batch)
          THEN /\ Return(t, l, Returned(cached_data[batch]))
               /\ UNCHANGED file
          ELSE /\ Goto(t, "gsb_fetch", l)
               /\ IF /\ Truthy(cached_data)
                     /\ batch \in DOMAIN cached_data
                     /\ stale_entry_found(cached_data, batch)
                  THEN file' = _save_cache(cached_data)
                  ELSE UNCHANGED file
    /\ UNCHANGED <<now, mpc, mloc, monitor, rate_limiter>>

\* a slip: the stale entry is forgotten
fallback_canonical_only(cached_data, batch) == EmptyRS

\* lines 389-394: what the call returns when its last attempt raised
fallback(cached_data, batch) ==
    IF Truthy(cached_data) /\ batch \in DOMAIN cached_data
    THEN cached_data[batch]
    ELSE EmptyRS

\* a slip: the last attempt's exception is raised again to the caller
GsbFetch_reraises(t, outcome) ==
    /\ pc[t] = "gsb_fetch"
    /\ LET l == [loc[t] EXCEPT !.ups = Append(@, outcome)]
           batch == l.batch
           result == make_graphql_request(outcome)
       IN IF make_graphql_request_raises(outcome)
          THEN IF l.attempt < max_retries - 1
               THEN Goto(t, "gsb_fetch", [l EXCEPT !.attempt = @ + 1])
               ELSE Return(t, l, Raised)
          ELSE IF student_count(result) > 0
               THEN Goto(t, "gsb_put", [l EXCEPT !.result = result])
          ELSE IF batch \notin known_empty_batches
               THEN IF l.attempt < max_retries - 1
                    THEN Goto(t, "gsb_fetch", [l EXCEPT !.attempt = @ + 1, !.result = result])
                    ELSE Return(t, [l EXCEPT !.result = result], Returned(result))
          ELSE Goto(t, "gsb_put", [l EXCEPT !.result = result])
    /\ UNCHANGED <<file, now, mpc, mloc, monitor, rate_limiter>>

\* lines 327-396: one pass of the retry loop, around one upstream request
GsbFetch(t, outcome) ==
    /\ pc[t] = "gsb_fetch"
    /\ LET l == [loc[t] EXCEPT !.ups = Append(@, outcome)]
           batch == l.batch
           result == make_graphql_request(outcome)
       IN IF make_graphql_request_raises(outcome)
          THEN IF l.attempt < max_retries - 1
               THEN Goto(t, "gsb_fetch", [l EXCEPT !.attempt = @ + 1])
               ELSE Return(t, l, Returned(fallback(l.cached_data, batch)))
          ELSE IF student_count(result) > 0
               THEN Goto(t, "gsb_put", [l EXCEPT !.result = result])
          ELSE IF batch \notin known_empty_batches
               THEN IF l.attempt < max_retries - 1
                    THEN Goto(t, "gsb_fetch", [l EXCEPT !.attempt = @ + 1, !.result = result])
                    ELSE Return(t, [l EXCEPT !.result = result], Returned(result))
          ELSE Goto(t, "gsb_put", [l EXCEPT !.result = result])
    /\ UNCHANGED <<file, now, mpc, mloc, monitor, rate_limiter>>

\* lines 358-359 and 375-376: re-read the category and set this batch in it
GsbPut(t) ==
    /\ pc[t] = "gsb_put"
    /\ Goto(t, "upd_load",
            [loc[t] EXCEPT !.cached_data =
                Put(_get_from_cache(file, "students", now), loc[t].batch, loc[t].result)])
    /\ UNCHANGED <<file, now, mpc, mloc, monitor, rate_limiter>>

(***************************************************************************)
(* _update_cache(key, data), lines 56-63, as its callers reach it: the     *)
(* load, then the mutation and the save.  The handler returns result.      *)
(***************************************************************************)
\* a slip: every handler but get_students_by_batch writes the contests category
update_key_contests_only(l) ==
    IF l.op = "get_students_by_batch" THEN "students" ELSE "contests"

\* the arguments each handler passes to _update_cache
update_key(l) ==
    IF l.op = "get_students_by_batch" THEN "students"
    ELSE IF l.op = "get_all_batches" THEN "batches"
    ELSE IF l.op = "get_contest_details" THEN "contest_details"
    ELSE "contests"

update_data(l) == IF l.op = "get_all_batches" THEN l.result ELSE l.cached_data

UpdLoad(t) ==
    /\ pc[t] = "upd_load"
    /\ Goto(t, "upd_save", [loc[t] EXCEPT !.cache_data = _load_cache(file)])
    /\ UNCHANGED <<file, now, mpc, mloc, monitor, rate_limiter>>

UpdSave(t) ==
    /\ pc[t] = "upd_save"
    /\ file' = _save_cache(_update_cache(loc[t].cache_data, update_key(loc[t]),
                                         update_data(loc[t]), now))
    /\ Return(t, loc[t], Returned(loc[t].result))
    /\ UNCHANGED <<now, mpc, mloc, monitor, rate_limiter>>

(***************************************************************************)
(* get_all_batches, lines 277-298, and get_contest_leaderboard, lines      *)
(* 458-506.                                                                *)
(***************************************************************************)
BatchesJSON == [allBatches |-> <<"b1", "batch22-26">>]
LeaderboardJSON(title) == [contestStatusLeaderboard |-> title]

\* cache_key = f"{batch}_{title}"
cache_key(batch, title) == batch \o "_" \o title

GabLookup(t, conc) ==
    /\ Free(t)
    /\ conc \/ Quiet(t)
    /\ LET cached_data == _get_from_cache(file, "batches", now)
           l == [IdleLoc EXCEPT !.op = "get_all_batches", !.cached_data = cached_data]
       IN IF Truthy(cached_data)
          THEN Return(t, l, Returned(cached_data))
          ELSE Goto(t, "gab_fetch", l)
    /\ UNCHANGED <<file, now, mpc, mloc, monitor, rate_limiter>>

GabFetch(t, outcome) ==
    /\ pc[t] = "gab_fetch"
    /\ LET l == [loc[t] EXCEPT !.ups = Append(@, outcome)]
       IN IF make_graphql_request_raises(outcome)
          THEN Return(t, l, Raised)
          ELSE Goto(t, "upd_load", [l EXCEPT !.result = make_graphql_request(outcome)])
    /\ UNCHANGED <<file, now, mpc, mloc, monitor, rate_limiter>>

GclLookup(t, batch, title, conc) ==
    /\ Free(t)
    /\ conc \/ Quiet(t)
    /\ LET cached_data == _get_from_cache(file, "contests", now)
           l == [IdleLoc EXCEPT !.op = "get_contest_leaderboard", !.batch = batch,
                                !.title = title, !.cached_data = cached_data]
       IN IF Truthy(cached_data) /\ cache_key(batch, title) \in DOMAIN cached_data
          THEN Return(t, l, Returned(cached_data[cache_key(batch, title)]))
          ELSE Goto(t, "gcl_fetch", l)
    /\ UNCHANGED <<file, now, mpc, mloc, monitor, rate_limiter>>

GclFetch(t, outcome) ==
    /\ pc[t] = "gcl_fetch"
    /\ LET l == [loc[t] EXCEPT !.ups = Append(@, outcome)]
       IN IF make_graphql_request_raises(outcome)
          THEN Return(t, l, Raised)
          ELSE Goto(t, "gcl_put", [l EXCEPT !.result = make_graphql_request(outcome)])
    /\ UNCHANGED <<file, now, mpc, mloc, monitor, rate_limiter>>

\* lines 502-503
GclPut(t) ==
    /\ pc[t] = "gcl_put"
    /\ Goto(t, "upd_load",
            [loc[t] EXCEPT !.cached_data =
                Put(_get_from_cache(file, "contests", now),
                    cache_key(loc[t].batch, loc[t].title), loc[t].result)])
    /\ UNCHANGED <<file, now, mpc, mloc, monitor, rate_limiter>>

(***************************************************************************)
(* get_all_contests, lines 508-529, and get_contest_details, lines         *)
(* 531-562.                                                                *)
(***************************************************************************)
AllContestsJSON(batch) == [allContests |-> batch]
ContestDetailsJSON(contest_title) == [contestDetails |-> contest_title]

\* cache_key = f"{batch}_all"
all_cache_key(batch) == batch \o "_all"

GacLookup(t, batch, conc) ==
    /\ Free(t)
    /\ conc \/ Quiet(t)
    /\ LET cached_data == _get_from_cache(file, "contests", now)
           l == [IdleLoc EXCEPT !.op = "get_all_contests", !.batch = batch,
                                !.cached_data = cached_data]
       IN IF Truthy(cached_data) /\ all_cache_key(batch) \in DOMAIN cached_data
          THEN Return(t, l, Returned(cached_data[all_cache_key(batch)]))
          ELSE Goto(t, "gac_fetch", l)
    /\ UNCHANGED <<file, now, mpc, mloc, monitor, rate_limiter>>

GacFetch(t, outcome) ==
    /\ pc[t] = "gac_fetch"
    /\ LET l == [loc[t] EXCEPT !.ups = Append(@, outcome)]
       IN IF make_graphql_request_raises(outcome)
          THEN Return(t, l, Raised)
          ELSE Goto(t, "gac_put", [l EXCEPT !.result = make_graphql_request(outcome)])
    /\ UNCHANGED <<file, now, mpc, mloc, monitor, rate_limiter>>

\* lines 525-526
GacPut(t) ==
    /\ pc[t] = "gac_put"
    /\ Goto(t, "upd_load",
            [loc[t] EXCEPT !.cached_data =
                Put(_get_from_cache(file, "contests", now),
                    all_cache_key(loc[t].batch), loc[t].result)])
    /\ UNCHANGED <<file, now, mpc, mloc, monitor, rate_limiter>>

GcdLookup(t, contest_title, conc) ==
    /\ Free(t)
    /\ conc \/ Quiet(t)
    /\ LET cached_data == _get_from_cache(file, "contest_details", now)
           l == [IdleLoc EXCEPT !.op = "get_contest_details", !.title = contest_title,
                                !.cached_data = cached_data]
       IN IF Truthy(cached_data) /\ contest_title \in DOMAIN cached_data
          THEN Return(t, l, Returned(cached_data[contest_title]))
          ELSE Goto(t, "gcd_fetch", l)
    /\ UNCHANGED <<file, now, mpc, mloc, monitor, rate_limiter>>

GcdFetch(t, outcome) ==
    /\ pc[t] = "gcd_fetch"
    /\ LET l == [loc[t] EXCEPT !.ups = Append(@, outcome)]
       IN IF make_graphql_request_raises(outcome)
          THEN Return(t, l, Raised)
          ELSE Goto(t, "gcd_put", [l EXCEPT !.result = make_graphql_request(outcome)])
    /\ UNCHANGED <<file, now, mpc, mloc, monitor, rate_limiter>>

\* lines 558-559
GcdPut(t) ==
    /\ pc[t] = "gcd_put"
    /\ Goto(t, "upd_load",
            [loc[t] EXCEPT !.cached_data =
                Put(_get_from_cache(file, "contest_details", now),
                    loc[t].title, loc[t].result)])
    /\ UNCHANGED <<file, now, mpc, mloc, monitor, rate_limiter>>

(***************************************************************************)
(* One tick of the monitor, CacheHealthMonitor._check_cache_health, lines  *)
(* 48-65: the health audit, then the repair pass when it asks for one.     *)
(* mpc is "sleep" inside time.sleep(check_interval) of _monitor_loop and   *)
(* "tick_done" when _check_cache_health has returned.                      *)
(***************************************************************************)
IdleMon == [health |-> "none", health_status |-> EmptyMap, cache_data |-> EmptyDoc, problematic_batches |-> {}]

\* line 51: get_cache_health_status, and the branch of lines 53-62
MonHealth(conc) ==
    /\ mpc = "sleep"
    /\ conc \/ \A u \in Threads : Free(u)
    /\ LET h == get_cache_health_status(_load_cache(file))
       IN IF health_raises(_load_cache(file))
          THEN \* lines 64-65: the exception is logged and the tick ends
               /\ mpc' = "tick_done"
               /\ mloc' = [IdleMon EXCEPT !.health = "error"]
          ELSE IF h.overall_health = "needs_attention"
          THEN /\ mpc' = "av_load"
               /\ mloc' = [IdleMon EXCEPT !.health = h.overall_health, !.health_status = h]
          ELSE /\ mpc' = "tick_done"
               /\ mloc' = [IdleMon EXCEPT !.health = h.overall_health, !.health_status = h]
    /\ UNCHANGED <<file, now, pc, loc, monitor, rate_limiter>>

\* auto_validate_cache, lines 113-137: load and classify
MonAvLoad ==
    /\ mpc = "av_load"
    /\ LET cache_data == _load_cache(file)
           problematic_batches == av_problematic_batches(cache_data, now)
       IN IF problematic_batches = {}
          THEN /\ mpc' = "tick_done"
               /\ UNCHANGED mloc
          ELSE /\ mpc' = "av_save"
               /\ mloc' = [mloc EXCEPT !.cache_data = cache_data,
                                       !.problematic_batches = problematic_batches]
    /\ UNCHANGED <<file, now, pc, loc, monitor, rate_limiter>>

\* auto_validate_cache, lines 140-147: delete and save
MonAvSave ==
    /\ mpc = "av_save"
    /\ file' = _save_cache(av_cleared(mloc.cache_data, mloc.problematic_batches))
    /\ mpc' = "tick_done"
    /\ UNCHANGED <<mloc, now, pc, loc, monitor, rate_limiter>>

\* _monitor_loop, line 43: the tick is over, the loop sleeps
MonSleep ==
    /\ mpc = "tick_done"
    /\ mpc' = "sleep"
    /\ mloc' = IdleMon
    /\ UNCHANGED <<file, now, pc, loc, monitor, rate_limiter>>

(***************************************************************************)
(* The CacheHealthMonitor object, cache_monitor.py lines 14-46.  running   *)
(* is self.running; monitor_thread is the index in loops of the thread     *)
(* self.monitor_thread refers to, 0 for None; loops holds one record for   *)
(* every loop thread ever started.  A loop thread is at "check" (the test  *)
(* of while self.running), at "sleep" (inside time.sleep, which returns at *)
(* wake_at) or "exited".                                                   *)
(***************************************************************************)
\* check_interval=14400 (main.py line 31), in hours
check_interval == 4

NewLoop(t) == [pc |-> "check", wake_at |-> t, ticks |-> 0, last_tick |-> "none"]

\* CacheHealthMonitor.__init__, lines 14-18
NewMonitor == [running |-> FALSE, monitor_thread |-> 0, loops |-> <<>>]

\* the monitor as main.py line 31 leaves it: started once, its loop running
StartedMonitor == [running |-> TRUE, monitor_thread |-> 1, loops |-> <<NewLoop(0)>>]

\* the loop threads that have not exited
LiveLoops(m) == {i \in DOMAIN m.loops : m.loops[i].pc # "exited"}

\* the loop threads started so far and those that a start_monitoring past
\* its test is about to start
Spawned == Len(monitor.loops) + Cardinality({u \in Threads : pc[u] = "start_spawn"})

\* a slip: start_monitoring does not test self.running
StartCheck_no_guard(t) ==
    /\ Free(t)
    /\ Spawned < MaxLoops
    /\ Goto(t, "start_spawn", [IdleLoc EXCEPT !.op = "start_monitoring"])
    /\ UNCHANGED <<file, now, mpc, mloc, monitor, rate_limiter>>

\* start_monitoring, lines 22-24: the test of self.running
StartCheck(t) ==
    /\ Free(t)
    /\ monitor.running \/ Spawned < MaxLoops
    /\ LET l == [IdleLoc EXCEPT !.op = "start_monitoring"]
       IN IF monitor.running
          THEN Return(t, l, Returned(EmptyMap))
          ELSE Goto(t, "start_spawn", l)
    /\ UNCHANGED <<file, now, mpc, mloc, monitor, rate_limiter>>

\* start_monitoring, lines 26-29: set the flag, create and start the thread
StartSpawn(t) ==
    /\ pc[t] = "start_spawn"
    /\ monitor' = [running |-> TRUE,
                   monitor_thread |-> Len(monitor.loops) + 1,
                   loops |-> Append(monitor.loops, NewLoop(now))]
    /\ Return(t, loc[t], Returned(EmptyMap))
    /\ UNCHANGED <<file, now, mpc, mloc, rate_limiter>>

\* stop_monitoring, lines 33-35: clear the flag, test self.monitor_thread
\* and read it for the call of join
StopFlag(t) ==
    /\ Free(t)
    /\ monitor' = [monitor EXCEPT !.running = FALSE]
    /\ LET l == [IdleLoc EXCEPT !.op = "stop_monitoring", !.thread = monitor.monitor_thread]
       IN IF monitor.monitor_thread # 0
          THEN Goto(t, "stop_join", l)
          ELSE Return(t, l, Returned(EmptyMap))
    /\ UNCHANGED <<file, now, mpc, mloc, rate_limiter>>

\* a slip: stop does not wait for the thread
StopJoin_no_wait(t) ==
    /\ pc[t] = "stop_join"
    /\ Return(t, loc[t], Returned(EmptyMap))
    /\ UNCHANGED <<file, now, mpc, mloc, monitor, rate_limiter>>

\* stop_monitoring, lines 35-36: join() returns once the thread it was
\* called on has exited
StopJoin(t) ==
    /\ pc[t] = "stop_join"
    /\ monitor.loops[loc[t].thread].pc = "exited"
    /\ Return(t, loc[t], Returned(EmptyMap))
    /\ UNCHANGED <<file, now, mpc, mloc, monitor, rate_limiter>>

\* _check_cache_health, lines 48-65, as one step: what the tick does to the
\* file and how it ended
tick_file(f, t) ==
    IF health_raises(_load_cache(f)) THEN f
    ELSE IF get_cache_health_status(_load_cache(f)).overall_health = "needs_attention"
    THEN auto_validate_cache(f, t)
    ELSE f

tick_end(f) ==
    IF health_raises(_load_cache(f)) THEN "raised"
    ELSE get_cache_health_status(_load_cache(f)).overall_health

\* time.sleep(60) of line 46, in hours of the clock: less than one hour
error_delay == 0

\* a slip: _check_cache_health lets the exception of its body through
tick_escapes_on_raise(f) == health_raises(_load_cache(f))

\* _check_cache_health, lines 49 and 64-65: the whole body is inside
\* try / except Exception, so no exception of a tick reaches _monitor_loop
tick_escapes(f) == FALSE

\* _monitor_loop, lines 40-46: self.running is true, the tick runs, and the
\* loop enters time.sleep: check_interval after a tick that returned, the
\* error delay after one whose exception reached the loop.
LoopTick(i) ==
    /\ i \in DOMAIN monitor.loops
    /\ monitor.loops[i].pc = "check"
    /\ monitor.running
    /\ file' = tick_file(file, now)
    /\ monitor' = [monitor EXCEPT !.loops[i] =
                      [pc |-> "sleep",
                       wake_at |-> now + (IF tick_escapes(file) THEN error_delay
                                                                ELSE check_interval),
                       ticks |-> @.ticks + 1, last_tick |-> tick_end(file)]]
    /\ UNCHANGED <<now, pc, loc, mpc, mloc, rate_limiter>>

\* time.sleep returns
LoopWake(i) ==
    /\ i \in DOMAIN monitor.loops
    /\ monitor.loops[i].pc = "sleep"
    /\ now >= monitor.loops[i].wake_at
    /\ monitor' = [monitor EXCEPT !.loops[i].pc = "check"]
    /\ UNCHANGED <<file, now, pc, loc, mpc, mloc, rate_limiter>>

\* _monitor_loop, line 40: self.running is false, the thread ends
LoopExit(i) ==
    /\ i \in DOMAIN monitor.loops
    /\ monitor.loops[i].pc = "check"
    /\ ~monitor.running
    /\ monitor' = [monitor EXCEPT !.loops[i].pc = "exited"]
    /\ UNCHANGED <<file, now, pc, loc, mpc, mloc, rate_limiter>>

(***************************************************************************)
(* The clock, in steps of ClockStep hours.  A handler or a tick lasts      *)
(* seconds (three requests of at most 30 s and two waits of 2 s), so when  *)
(* conc is FALSE the clock moves only between them.                        *)
(***************************************************************************)
ClockStep == cache_duration \div 2
StartTime == cache_duration

Tick(conc) ==
    /\ conc \/ (mpc = "sleep" /\ \A u \in Threads : pc[u] = "idle")
    /\ now + ClockStep <= MaxTime
    /\ now' = now + ClockStep
    /\ UNCHANGED <<file, pc, loc, mpc, mloc, monitor, rate_limiter>>

(***************************************************************************)
(* The RateLimiter of app/middleware/rate_limiter.py.  Each of the two     *)
(* defaultdict(list) maps a client to the times recorded for it, oldest    *)
(* first.  admitted is a history the code does not keep: every time        *)
(* recorded for the client since the start.  For the limiter the clock     *)
(* counts steps of 30 s; the day is shortened to twice the minute so that  *)
(* both windows fit the clock's range.                                     *)
(***************************************************************************)
\* Config.MAX_REQUESTS_PER_MINUTE and MAX_REQUESTS_PER_DAY, config.py 24-25
MAX_REQUESTS_PER_MINUTE == 2
MAX_REQUESTS_PER_DAY == 3

\* Config.RATE_LIMIT_ENABLED, config.py line 26 (the default)
RATE_LIMIT_ENABLED == TRUE

\* the literals 60 (line 27) and 86400 (line 30)
minute_window == 2
day_window == 4

Clients == {"default", "other"}

\* RateLimiter.__init__, lines 9-11
NewRateLimiter ==
    [requests_per_minute |-> [c \in Clients |-> <<>>],
     requests_per_day |-> [c \in Clients |-> <<>>],
     admitted |-> [c \in Clients |-> <<>>]]

\* _clean_old_requests, lines 13-16; current_time is its own time.time()
_clean_old_requests(requests_list, window_seconds, current_time) ==
    SelectSeq(requests_list, LAMBDA req_time : current_time - req_time < window_seconds)

\* check_rate_limit, lines 18-45, with the three readings of the clock it
\* takes: current_time (line 23) and one inside each _clean_old_requests.
\* The value is the limiter after the call and the value returned.
check_rate_limit(rl, client_id, current_time, clean_time_minute, clean_time_day) ==
    LET per_minute == _clean_old_requests(rl.requests_per_minute[client_id], minute_window,
                                          clean_time_minute)
        per_day == _clean_old_requests(rl.requests_per_day[client_id], day_window,
                                       clean_time_day)
        cleaned == [rl EXCEPT !.requests_per_minute[client_id] = per_minute,
                              !.requests_per_day[client_id] = per_day]
    IN IF ~RATE_LIMIT_ENABLED THEN [limiter |-> rl, allowed |-> TRUE]
       ELSE IF Len(per_minute) >= MAX_REQUESTS_PER_MINUTE
       THEN [limiter |-> cleaned, allowed |-> FALSE]
       ELSE IF Len(per_day) >= MAX_REQUESTS_PER_DAY
       THEN [limiter |-> cleaned, allowed |-> FALSE]
       ELSE [limiter |-> [cleaned EXCEPT
                            !.requests_per_minute[client_id] = Append(@, current_time),
                            !.requests_per_day[client_id] = Append(@, current_time),
                            !.admitted[client_id] = Append(@, current_time)],
             allowed |-> TRUE]

\* One call of check_rate_limit.  It runs on the event loop with no await
\* inside, so no other call runs within it; the clock goes on, and each
\* later reading is the one before it plus what has passed.
CheckRateLimit(t, client_id) ==
    /\ Free(t)
    /\ \E passed1, passed2 \in 0..MaxDrift :
         LET current_time == now
             clean_time_minute == current_time + passed1
             clean_time_day == clean_time_minute + passed2
             r == check_rate_limit(rate_limiter, client_id, current_time,
                                   clean_time_minute, clean_time_day)
         IN /\ clean_time_day <= MaxTime
            /\ now' = clean_time_day
            /\ rate_limiter' = r.limiter
            /\ Return(t, [IdleLoc EXCEPT !.op = "check_rate_limit", !.client_id = client_id],
                      Returned(r.allowed))
    /\ UNCHANGED <<file, mpc, mloc, monitor>>

\* time passes between two requests
Elapse ==
    /\ now < MaxTime
    /\ now' = now + 1
    /\ UNCHANGED <<file, pc, loc, mpc, mloc, monitor, rate_limiter>>

InitLimiter ==
    /\ now = MaxTime - LimiterSpan
    /\ file = AbsentFile
    /\ pc = [t \in Threads |-> "idle"]
    /\ loc = [t \in Threads |-> IdleLoc]
    /\ mpc = "sleep"
    /\ mloc = IdleMon
    /\ monitor = NewMonitor
    /\ rate_limiter = NewRateLimiter

NextLimiter ==
    \/ \E client_id \in Clients : CheckRateLimit("w1", client_id)
    \/ Finish("w1")
    \/ Elapse

SpecLimiter == InitLimiter /\ [][NextLimiter]_vars

(***************************************************************************)
(* The inputs: the batches callers ask for, what the upstream answers for  *)
(* each, and the cache file the service finds when it is constructed.      *)
(***************************************************************************)
Batches == {"b1", "b2", "batch22-26"}
Titles == {"c1", "c2"}

StudentOutcomes(batch) ==
    {Ok(NoKeyRS), Ok(EmptyRS), Ok(GoodRS), TransportFailure, GraphQLError}
    \cup (IF batch \in known_empty_batches THEN {} ELSE {Ok(BadRS)})
BatchesOutcomes == {Ok(BatchesJSON), TransportFailure, GraphQLError}
LeaderboardOutcomes(title) == {Ok(LeaderboardJSON(title)), TransportFailure, GraphQLError}
AllContestsOutcomes(batch) == {Ok(AllContestsJSON(batch)), TransportFailure, GraphQLError}
ContestDetailsOutcomes(contest_title) ==
    {Ok(ContestDetailsJSON(contest_title)), TransportFailure, GraphQLError}

InitFiles ==
    { AbsentFile,
      OkFile([last_fetch_time |-> IsoTime(0),
              data |-> [students |-> ("b1" :> NoKeyRS @@ "b2" :> GoodRS @@ "batch22-26" :> EmptyRS)]]),
      OkFile([last_fetch_time |-> IsoTime(0),
              data |-> [students |-> ("b1" :> BadRS @@ "batch22-26" :> GoodRS),
                        batches |-> BatchesJSON]]),
      OkFile([last_fetch_time |-> IsoTime(StartTime - ClockStep),
              data |-> [students |-> ("b1" :> EmptyRS @@ "batch22-26" :> NoKeyRS)]]),
      OkFile([last_fetch_time |-> NullTime,
              data |-> [students |-> ("b1" :> GoodRS)]]),
      OkFile([last_fetch_time |-> BadTime,
              data |-> [students |-> ("b1" :> GoodRS)]]) }

\* ApiService.__init__, lines 11-17, runs auto_validate_cache on the file it finds
Init ==
    /\ now = StartTime
    /\ \E f \in InitFiles : file = auto_validate_cache(f, now)
    /\ pc = [t \in Threads |-> "idle"]
    /\ loc = [t \in Threads |-> IdleLoc]
    /\ mpc = "sleep"
    /\ mloc = IdleMon
    /\ monitor = StartedMonitor
    /\ rate_limiter = NewRateLimiter

(***************************************************************************)
(* Spec: one request thread and the monitor, one handler or tick at a      *)
(* time, on the students and batches categories.                           *)
(***************************************************************************)
Next ==
    \/ \E batch \in Batches : GsbLookup("w1", batch, FALSE)
    \/ \E outcome \in StudentOutcomes(loc["w1"].batch) : GsbFetch("w1", outcome)
    \/ GsbPut("w1")
    \/ UpdLoad("w1")
    \/ UpdSave("w1")
    \/ GabLookup("w1", FALSE)
    \/ \E outcome \in BatchesOutcomes : GabFetch("w1", outcome)
    \/ Finish("w1")
    \/ MonHealth(FALSE)
    \/ MonAvLoad
    \/ MonAvSave
    \/ MonSleep
    \/ Tick(FALSE)

Spec == Init /\ [][Next]_vars

(***************************************************************************)
(* SpecAudit: the monitor beside one request thread that fetches b1, with  *)
(* upstream answers that exercise each rule of the validator, alone and    *)
(* together.  Each record is S1 with the named fields replaced.            *)
(***************************************************************************)
SNoUser == [S1 EXCEPT !.leetcodeUsername = ""]
SNoName == [S1 EXCEPT !.name = ""]
SNegRating == [S1 EXCEPT !.rating = <<-1>>]
STopRating == [S1 EXCEPT !.rating = <<4000>>, !.totalSolved = 3000, !.easySolved = 1000,
                         !.mediumSolved = 1000, !.hardSolved = 1000,
                         !.attendedContestsCount = 1000]
SZeroRating == [S1 EXCEPT !.rating = <<0>>]
SMismatch == [S1 EXCEPT !.totalSolved = 10]
SUnrealistic == [S1 EXCEPT !.totalSolved = 3003, !.easySolved = 1001,
                           !.mediumSolved = 1001, !.hardSolved = 1001]
SUnrealisticMismatch == [S1 EXCEPT !.totalSolved = 3001]
SNegativeOne == [S1 EXCEPT !.easySolved = -1, !.totalSolved = 5]
SNegativeTwo == [S1 EXCEPT !.easySolved = -1, !.mediumSolved = -1, !.totalSolved = 1]
SNegativeTotal == [S1 EXCEPT !.totalSolved = -1, !.easySolved = 0, !.mediumSolved = 0,
                             !.hardSolved = 0]
SManyContests == [S1 EXCEPT !.attendedContestsCount = 1001]
SNegContests == [S1 EXCEPT !.attendedContestsCount = -1]
SNoSection == [S1 EXCEPT !.section = ""]
SNoRoll == [S1 EXCEPT !.rollNumber = ""]
SAllDefects == [S1 EXCEPT !.leetcodeUsername = "", !.name = "", !.rating = <<4001>>,
                          !.totalSolved = 3001, !.easySolved = -1,
                          !.attendedContestsCount = 1001, !.section = "", !.rollNumber = ""]

StudentPool ==
    {S1, S2, SBadRating, SNoUser, SNoName, SNegRating, STopRating, SZeroRating, SMismatch,
     SUnrealistic, SUnrealisticMismatch, SNegativeOne, SNegativeTwo, SNegativeTotal,
     SManyContests, SNegContests, SNoSection, SNoRoll, SAllDefects}

AuditOutcomes ==
    {Ok([students |-> <<s>>]) : s \in StudentPool}
    \cup {Ok([students |-> <<SMismatch, SAllDefects>>]), Ok([students |-> <<S1, SNoRoll>>]),
          Ok([students |-> <<SBadRating, SNegativeTwo>>]), Ok(GoodRS)}

\* the record sets a file holds for a batch when the service starts
AuditEntries == {NoKeyRS, EmptyRS, GoodRS, BadRS}

AuditTimes == {IsoTime(StartTime - ClockStep), IsoTime(0), NullTime}

AuditFiles ==
    {AbsentFile}
    \cup {OkFile([last_fetch_time |-> lft, data |-> [students |-> m]]) :
            lft \in AuditTimes,
            m \in UNION {[B -> AuditEntries] : B \in SUBSET Batches}}

InitAudit ==
    /\ now = StartTime
    /\ \E f \in AuditFiles : file = auto_validate_cache(f, now)
    /\ pc = [t \in Threads |-> "idle"]
    /\ loc = [t \in Threads |-> IdleLoc]
    /\ mpc = "sleep"
    /\ mloc = IdleMon
    /\ monitor = StartedMonitor
    /\ rate_limiter = NewRateLimiter

NextAudit ==
    \/ GsbLookup("w1", "b1", FALSE)
    \/ \E outcome \in AuditOutcomes : GsbFetch("w1", outcome)
    \/ GsbPut("w1")
    \/ UpdLoad("w1")
    \/ UpdSave("w1")
    \/ Finish("w1")
    \/ MonHealth(FALSE)
    \/ MonAvLoad
    \/ MonAvSave
    \/ MonSleep

SpecAudit == InitAudit /\ [][NextAudit]_vars

(***************************************************************************)
(* SpecLifecycle: one thread (w1) that starts and stops the monitor, the   *)
(* loop threads it starts, a request thread (w2) that fetches b1, and the  *)
(* clock.  The tick of a loop thread is one step.                          *)
(***************************************************************************)
LifeOutcomes == {Ok(GoodRS), Ok(BadRS), Ok([students |-> <<SNullTotal>>])}

LifeFiles ==
    { AbsentFile,
      OkFile([last_fetch_time |-> IsoTime(StartTime - ClockStep),
              data |-> [students |-> ("b2" :> GoodRS)]]),
      OkFile([last_fetch_time |-> IsoTime(0),
              data |-> [students |-> ("b1" :> EmptyRS)]]) }

InitLifecycle ==
    /\ now = StartTime
    /\ \E f \in LifeFiles : file = auto_validate_cache(f, now)
    /\ pc = [t \in Threads |-> "idle"]
    /\ loc = [t \in Threads |-> IdleLoc]
    /\ mpc = "sleep"
    /\ mloc = IdleMon
    /\ monitor = NewMonitor
    /\ rate_limiter = NewRateLimiter

LoopStep == \E i \in 1..MaxLoops : LoopTick(i) \/ LoopWake(i) \/ LoopExit(i)

NextLifecycle ==
    \/ StartCheck("w1")
    \/ StartSpawn("w1")
    \/ StopFlag("w1")
    \/ StopJoin("w1")
    \/ Finish("w1")
    \/ \E i \in 1..MaxLoops : LoopTick(i)
    \/ \E i \in 1..MaxLoops : LoopWake(i)
    \/ \E i \in 1..MaxLoops : LoopExit(i)
    \/ GsbLookup("w2", "b1", TRUE)
    \/ \E outcome \in LifeOutcomes : GsbFetch("w2", outcome)
    \/ GsbPut("w2")
    \/ UpdLoad("w2")
    \/ UpdSave("w2")
    \/ Finish("w2")
    \/ Tick(TRUE)

SpecLifecycle == InitLifecycle /\ [][NextLifecycle]_vars

(***************************************************************************)
(* SpecLoop: the monitor alone, on a file that no request thread writes:   *)
(* the thread that starts and stops it, its loop threads and the clock.    *)
(* time.sleep returns when its time has passed and a daemon thread that    *)
(* can run is scheduled, so the clock runs and a loop thread that has a    *)
(* step to take takes it.                                                  *)
(***************************************************************************)
LoopFiles ==
    { AbsentFile,
      OkFile([last_fetch_time |-> IsoTime(StartTime - ClockStep),
              data |-> [students |-> ("b2" :> GoodRS)]]),
      OkFile([last_fetch_time |-> IsoTime(StartTime - ClockStep),
              data |-> [students |-> ("b1" :> [students |-> <<SNullTotal>>])]]),
      OkFile([last_fetch_time |-> IsoTime(StartTime),
              data |-> [students |-> ("b1" :> BadRS)]]) }

InitLoop ==
    /\ now = StartTime
    /\ \E f \in LoopFiles : file = f
    /\ pc = [t \in Threads |-> "idle"]
    /\ loc = [t \in Threads |-> IdleLoc]
    /\ mpc = "sleep"
    /\ mloc = IdleMon
    /\ monitor = NewMonitor
    /\ rate_limiter = NewRateLimiter

NextLoop ==
    \/ StartCheck("w1")
    \/ StartSpawn("w1")
    \/ StopFlag("w1")
    \/ StopJoin("w1")
    \/ Finish("w1")
    \/ \E i \in 1..MaxLoops : LoopTick(i)
    \/ \E i \in 1..MaxLoops : LoopWake(i)
    \/ \E i \in 1..MaxLoops : LoopExit(i)
    \/ Tick(TRUE)

SpecLoop == InitLoop /\ [][NextLoop]_vars /\ WF_vars(Tick(TRUE)) /\ WF_vars(LoopStep)

(***************************************************************************)
(* SpecStartStop: two threads that both call start_monitoring and         *)
(* stop_monitoring on the one CacheHealthMonitor, their steps and those of *)
(* the loop threads interleaved in every order.  No lock guards running or *)
(* monitor_thread.                                                         *)
(***************************************************************************)
NextStartStop ==
    \/ \E t \in Threads : StartCheck(t)
    \/ \E t \in Threads : StartSpawn(t)
    \/ \E t \in Threads : StopFlag(t)
    \/ \E t \in Threads : StopJoin(t)
    \/ \E t \in Threads : Finish(t)
    \/ \E i \in 1..MaxLoops : LoopTick(i)
    \/ \E i \in 1..MaxLoops : LoopWake(i)
    \/ \E i \in 1..MaxLoops : LoopExit(i)
    \/ Tick(TRUE)

SpecStartStop == InitLoop /\ [][NextStartStop]_vars

(***************************************************************************)
(* The administrative operations of ApiService, lines 65-108, get_student, *)
(* lines 398-456, and the admin tool src/cache_monitor.py, which builds    *)
(* its own ApiService on the same cache file and runs one command.         *)
(***************************************************************************)
\* a slip: the file is emptied, not removed
clear_all_cache_empties(f) == OkFile(EmptyDoc)

\* clear_all_cache, lines 78-87: os.remove of the file when it exists
clear_all_cache(f) == AbsentFile

\* the labels at which a thread holds the file open for writing, between
\* the open and the json.dump of _save_cache (lines 32-33), and whether any
\* thread or the monitor is there
WriteLabels == {"upd_write", "ccb_write"}
HandleOpen == (\E u \in Threads : pc[u] \in WriteLabels) \/ mpc = "av_write"

\* the value returned stands for the line printed: "Cleared all cache" or
\* "No cache file found" or "Error clearing cache".  While a save holds the
\* file open, os.remove either unlinks it, and what the save then writes is
\* never seen under the file's name (POSIX), or raises PermissionError, which
\* line 86 catches (Windows).
ClearAll(t) ==
    /\ Free(t)
    /\ \E removed \in (IF HandleOpen THEN BOOLEAN ELSE {TRUE}) :
         /\ file' = IF removed THEN clear_all_cache(file) ELSE file
         /\ pc' = [u \in Threads |->
                     IF u = t THEN "done"
                     ELSE IF removed /\ pc[u] \in WriteLabels THEN "lost_write"
                     ELSE pc[u]]
         /\ loc' = [loc EXCEPT ![t] =
                       [IdleLoc EXCEPT !.op = "clear_all_cache",
                                       !.ret = Returned([cleared |-> removed /\ file.state # "absent"])]]
         /\ mpc' = IF removed /\ mpc = "av_write" THEN "av_lost" ELSE mpc
    /\ UNCHANGED <<now, mloc, monitor, rate_limiter>>

\* get_cache_info, lines 89-108.  cached_batches is the list of
\* {batch, student_count}, here the count of each batch; cache_file is the
\* path, the same in every state.
get_cache_info(f, t) ==
    [cache_exists |-> f.state # "absent",
     last_fetch_time |-> _load_cache(f).last_fetch_time,
     is_valid |-> _is_cache_valid(_load_cache(f), t),
     cached_batches |-> [batch \in DOMAIN Students(_load_cache(f)) |->
                            student_count(Students(_load_cache(f))[batch])]]

GetCacheInfo(t) ==
    /\ Free(t)
    /\ Return(t, [IdleLoc EXCEPT !.op = "get_cache_info"], Returned(get_cache_info(file, now)))
    /\ UNCHANGED <<file, now, mpc, mloc, monitor, rate_limiter>>

\* a slip: the whole students category is deleted
clear_batch_drops_category(cache_data, batch) ==
    [cache_data EXCEPT !.data = Del(@, "students")]

\* clear_cache_for_batch, line 70: del cache_data["data"]["students"][batch]
clear_batch(cache_data, batch) ==
    [cache_data EXCEPT !.data.students = Del(@, batch)]

\* clear_cache_for_batch, lines 67-69 and 73-76: the load and the two tests
CcbLoad(t, batch) ==
    /\ Free(t)
    /\ LET cache_data == _load_cache(file)
           l == [IdleLoc EXCEPT !.op = "clear_cache_for_batch", !.batch = batch,
                                !.cache_data = cache_data]
       IN IF "students" \in DOMAIN cache_data.data /\ batch \in DOMAIN cache_data.data.students
          THEN Goto(t, "ccb_save", l)
          ELSE Return(t, l, Returned(EmptyMap))
    /\ UNCHANGED <<file, now, mpc, mloc, monitor, rate_limiter>>

\* clear_cache_for_batch, lines 70-72: the deletion and the save
CcbSave(t) ==
    /\ pc[t] = "ccb_save"
    /\ file' = _save_cache(clear_batch(loc[t].cache_data, loc[t].batch))
    /\ Return(t, loc[t], Returned(EmptyMap))
    /\ UNCHANGED <<now, mpc, mloc, monitor, rate_limiter>>

\* a slip: the first record of the roster is returned whatever its username
find_student_first(students, username) ==
    IF students = <<>> THEN {} ELSE {1}

\* get_student, lines 403-406: the position of the record the for loop
\* returns, the first whose leetcodeUsername is username; {} when it ends
\* without returning
find_student(students, username) ==
    LET matches == {i \in DOMAIN students : students[i].leetcodeUsername = username}
    IN IF matches = {} THEN {} ELSE {CHOOSE i \in matches : \A j \in matches : i <= j}

\* get_student, lines 401-406: the cache lookup
GstLookup(t, batch, username) ==
    /\ Free(t)
    /\ LET cached_data == _get_from_cache(file, "students", now)
           l == [IdleLoc EXCEPT !.op = "get_student", !.batch = batch,
                                !.username = username, !.cached_data = cached_data]
           students == IF Truthy(cached_data) /\ batch \in DOMAIN cached_data
                       THEN Get(cached_data[batch], "students", <<>>)
                       ELSE <<>>
           found == find_student(students, username)
       IN IF found # {}
          THEN Return(t, l, Returned([student |-> students[CHOOSE i \in found : TRUE]]))
          ELSE Goto(t, "gst_fetch", l)
    /\ UNCHANGED <<file, now, mpc, mloc, monitor, rate_limiter>>

\* get_student, line 456: the point query; its result is returned as it is
GstFetch(t, outcome) ==
    /\ pc[t] = "gst_fetch"
    /\ LET l == [loc[t] EXCEPT !.ups = Append(@, outcome)]
       IN IF make_graphql_request_raises(outcome)
          THEN Return(t, l, Raised)
          ELSE Return(t, l, Returned(make_graphql_request(outcome)))
    /\ UNCHANGED <<file, now, mpc, mloc, monitor, rate_limiter>>

\* src/cache_monitor.py, lines 21-22: the tool reads its command and builds
\* an ApiService, whose __init__ runs auto_validate_cache on the file
Commands == {"info", "test-batch"}

CliStart(t, command, batch) ==
    /\ Free(t)
    /\ file' = auto_validate_cache(file, now)
    /\ Goto(t, IF command = "info" THEN "cli_info" ELSE "cli_test_batch",
            [IdleLoc EXCEPT !.command = command, !.batch = batch])
    /\ UNCHANGED <<now, mpc, mloc, monitor, rate_limiter>>

\* src/cache_monitor.py, lines 24-34: info
CliInfo(t) ==
    /\ pc[t] = "cli_info"
    /\ Return(t, [loc[t] EXCEPT !.op = "get_cache_info"], Returned(get_cache_info(file, now)))
    /\ UNCHANGED <<file, now, mpc, mloc, monitor, rate_limiter>>

\* src/cache_monitor.py, lines 46-59: test-batch calls
\* api.get_students_by_batch(batch); this is the lookup of lines 303-323,
\* and the call goes on as any call of get_students_by_batch
CliTestBatch(t) ==
    /\ pc[t] = "cli_test_batch"
    /\ LET batch == loc[t].batch
           cached_data == _get_from_cache(file, "students", now)
           l == [loc[t] EXCEPT !.op = "get_students_by_batch", !.cached_data = cached_data]
       IN IF is_cache_hit(cached_data, batch)
          THEN /\ Return(t, l, Returned(cached_data[batch]))
               /\ UNCHANGED file
          ELSE /\ Goto(t, "gsb_fetch", l)
               /\ IF /\ Truthy(cached_data)
                     /\ batch \in DOMAIN cached_data
                     /\ stale_entry_found(cached_data, batch)
                  THEN file' = _save_cache(cached_data)
                  ELSE UNCHANGED file
    /\ UNCHANGED <<now, mpc, mloc, monitor, rate_limiter>>

(***************************************************************************)
(* SpecAdmin: one thread at a time on the cache file: the handlers         *)
(* get_students_by_batch, get_all_batches and get_student, the             *)
(* administrative operations, and the admin tool's commands.  No monitor   *)
(* runs.                                                                   *)
(***************************************************************************)
AdminBatches == {"b1", "b2"}
Usernames == {"u1", "u3", "u9"}

AdminStudentOutcomes == {Ok(GoodRS), Ok(BadRS), Ok(EmptyRS), TransportFailure}
StudentJSON(username) ==
    IF username = "u1" THEN [student |-> <<S1>>] ELSE [student |-> <<>>]
PointOutcomes(username) == {Ok(StudentJSON(username)), TransportFailure, GraphQLError}

AdminFiles ==
    { AbsentFile,
      OkFile([last_fetch_time |-> IsoTime(StartTime - ClockStep),
              data |-> [students |-> ("b1" :> GoodRS @@ "b2" :> EmptyRS),
                        batches |-> BatchesJSON]]),
      OkFile([last_fetch_time |-> IsoTime(0),
              data |-> [students |-> ("b1" :> GoodRS)]]) }

InitAdmin ==
    /\ now = StartTime
    /\ \E f \in AdminFiles : file = auto_validate_cache(f, now)
    /\ pc = [t \in Threads |-> "idle"]
    /\ loc = [t \in Threads |-> IdleLoc]
    /\ mpc = "sleep"
    /\ mloc = IdleMon
    /\ monitor = NewMonitor
    /\ rate_limiter = NewRateLimiter

NextAdmin ==
    \/ \E batch \in AdminBatches : GsbLookup("w1", batch, FALSE)
    \/ \E outcome \in AdminStudentOutcomes : GsbFetch("w1", outcome)
    \/ GsbPut("w1")
    \/ UpdLoad("w1")
    \/ UpdSave("w1")
    \/ GabLookup("w1", FALSE)
    \/ \E outcome \in BatchesOutcomes : GabFetch("w1", outcome)
    \/ \E batch \in AdminBatches, username \in Usernames : GstLookup("w1", batch, username)
    \/ \E outcome \in PointOutcomes(loc["w1"].username) : GstFetch("w1", outcome)
    \/ ClearAll("w1")
    \/ \E batch \in AdminBatches : CcbLoad("w1", batch)
    \/ CcbSave("w1")
    \/ GetCacheInfo("w1")
    \/ \E command \in Commands, batch \in AdminBatches : CliStart("w1", command, batch)
    \/ CliInfo("w1")
    \/ CliTestBatch("w1")
    \/ Finish("w1")
    \/ Tick(FALSE)

SpecAdmin == InitAdmin /\ [][NextAdmin]_vars

(***************************************************************************)
(* Storage failures.  A cache file can be there and not load: its text is  *)
(* not JSON (a write that stopped part-way leaves such a file) or open()   *)
(* fails on it.  A save can fail at open(), which leaves the file as it    *)
(* was, or after it, which leaves a truncated file.                        *)
(***************************************************************************)
CorruptFile == [state |-> "corrupt", doc |-> EmptyDoc]
UnreadableFile == [state |-> "unreadable", doc |-> EmptyDoc]

\* a slip: the exception of open() or json.load leaves _load_cache
load_raises_on_bad_file(f) == f.state \in {"corrupt", "unreadable"}

\* _load_cache, lines 21-26: the test, the open and the parse are inside
\* try / except Exception, so no exception leaves _load_cache
load_raises(f) == FALSE

SaveOutcomes == {"saved", "open_failed", "write_failed"}

\* a slip: the exception of a failing save leaves _save_cache
save_raises_on_failure(outcome) == outcome # "saved"

\* _save_cache, lines 31-35: the open and the dump are inside
\* try / except Exception, so no exception leaves _save_cache
save_raises(outcome) == FALSE

\* the file a call of _save_cache(cache_data) leaves
save_result(f, cache_data, outcome) ==
    IF outcome = "saved" THEN _save_cache(cache_data)
    ELSE IF outcome = "open_failed" THEN f
    ELSE CorruptFile

\* the call of thread t ends with the exception e raised by a load or a save
Propagate(t) ==
    /\ Return(t, loc[t], Raised)
    /\ UNCHANGED <<file, now, mpc, mloc, monitor, rate_limiter>>

\* get_students_by_batch, lines 303-323, on a file that may not load
StGsbLookup(t, batch) ==
    IF load_raises(file)
    THEN /\ Free(t)
         /\ Return(t, [IdleLoc EXCEPT !.op = "get_students_by_batch", !.batch = batch], Raised)
         /\ UNCHANGED <<file, now, mpc, mloc, monitor, rate_limiter>>
    ELSE GsbLookup(t, batch, FALSE)

\* lines 358-359 and 375-376, the same
StGsbPut(t) ==
    IF load_raises(file) THEN pc[t] = "gsb_put" /\ Propagate(t) ELSE GsbPut(t)

\* _update_cache, line 58, the same
StUpdLoad(t) ==
    IF load_raises(file) THEN pc[t] = "upd_load" /\ Propagate(t) ELSE UpdLoad(t)

\* _update_cache, lines 59-63, with a save that may fail; the handler then
\* returns result
StUpdSave(t, outcome) ==
    /\ pc[t] = "upd_save"
    /\ file' = save_result(file,
                           _update_cache(loc[t].cache_data, update_key(loc[t]),
                                         update_data(loc[t]), now),
                           outcome)
    /\ IF save_raises(outcome)
       THEN Return(t, loc[t], Raised)
       ELSE Return(t, loc[t], Returned(loc[t].result))
    /\ UNCHANGED <<now, mpc, mloc, monitor, rate_limiter>>

\* get_cache_info, lines 89-108, the same
StGetCacheInfo(t) ==
    IF load_raises(file)
    THEN /\ Free(t)
         /\ Return(t, [IdleLoc EXCEPT !.op = "get_cache_info"], Raised)
         /\ UNCHANGED <<file, now, mpc, mloc, monitor, rate_limiter>>
    ELSE GetCacheInfo(t)

(***************************************************************************)
(* SpecStorage: one request thread that fetches rosters and asks for the   *)
(* cache information, on storage that can fail.                            *)
(***************************************************************************)
StorageOutcomes == {Ok(GoodRS), Ok(EmptyRS), TransportFailure}

StorageFiles ==
    { AbsentFile, CorruptFile, UnreadableFile,
      OkFile([last_fetch_time |-> IsoTime(StartTime - ClockStep),
              data |-> [students |-> ("b2" :> GoodRS)]]) }

InitStorage ==
    /\ now = StartTime
    /\ \E f \in StorageFiles : file = auto_validate_cache(f, now)
    /\ pc = [t \in Threads |-> "idle"]
    /\ loc = [t \in Threads |-> IdleLoc]
    /\ mpc = "sleep"
    /\ mloc = IdleMon
    /\ monitor = NewMonitor
    /\ rate_limiter = NewRateLimiter

NextStorage ==
    \/ \E batch \in AdminBatches : StGsbLookup("w1", batch)
    \/ \E outcome \in StorageOutcomes : GsbFetch("w1", outcome)
    \/ StGsbPut("w1")
    \/ StUpdLoad("w1")
    \/ \E outcome \in SaveOutcomes : StUpdSave("w1", outcome)
    \/ StGetCacheInfo("w1")
    \/ Finish("w1")
    \/ Tick(FALSE)

SpecStorage == InitStorage /\ [][NextStorage]_vars

(***************************************************************************)
(* SpecRepair: the audit and the repair pass on the documents a cache file *)
(* can hold.  The service is built on the file as it is found (w1 is in    *)
(* ApiService.__init__, about to run auto_validate_cache); afterwards w1   *)
(* fetches b1, another ApiService is built on the same file (the admin     *)
(* tool, a restart), the monitor ticks and the clock runs, one at a time.  *)
(***************************************************************************)
NullRS == [students |-> <<SNullTotal>>]

\* ApiService.__init__, line 17: the repair pass on the file as it is
Construct(t) ==
    /\ pc[t] = "construct"
    /\ file' = auto_validate_cache(file, now)
    /\ Return(t, [loc[t] EXCEPT !.op = "auto_validate_cache",
                                !.cache_data = _load_cache(file)],
              Returned(EmptyMap))
    /\ UNCHANGED <<now, mpc, mloc, monitor, rate_limiter>>

\* ApiService() is called again on the same file
Rebuild(t) ==
    /\ Free(t)
    /\ Quiet(t)
    /\ Goto(t, "construct", IdleLoc)
    /\ UNCHANGED <<file, now, mpc, mloc, monitor, rate_limiter>>

RepairEntries == {NoKeyRS, EmptyRS, GoodRS, BadRS, NullRS}
RepairTimes == {IsoTime(StartTime), IsoTime(StartTime - ClockStep), IsoTime(0), NullTime}
RepairOutcomes == {Ok(GoodRS), Ok(BadRS), Ok(NullRS), Ok(EmptyRS), TransportFailure}

RepairFiles ==
    {AbsentFile}
    \cup {OkFile([last_fetch_time |-> lft, data |-> [students |-> m]]) :
            lft \in RepairTimes,
            m \in UNION {[B -> RepairEntries] : B \in SUBSET Batches}}
    \cup {OkFile([last_fetch_time |-> IsoTime(StartTime), data |-> [batches |-> BatchesJSON]])}

InitRepair ==
    /\ now = StartTime
    /\ \E f \in RepairFiles : file = f
    /\ pc = [t \in Threads |-> IF t = "w1" THEN "construct" ELSE "idle"]
    /\ loc = [t \in Threads |-> IdleLoc]
    /\ mpc = "sleep"
    /\ mloc = IdleMon
    /\ monitor = StartedMonitor
    /\ rate_limiter = NewRateLimiter

NextRepair ==
    \/ Construct("w1")
    \/ Rebuild("w1")
    \/ GsbLookup("w1", "b1", FALSE)
    \/ \E outcome \in RepairOutcomes : GsbFetch("w1", outcome)
    \/ GsbPut("w1")
    \/ UpdLoad("w1")
    \/ UpdSave("w1")
    \/ Finish("w1")
    \/ MonHealth(FALSE)
    \/ MonAvLoad
    \/ MonAvSave
    \/ MonSleep
    \/ Tick(FALSE)

SpecRepair == InitRepair /\ [][NextRepair]_vars

(***************************************************************************)
(* _save_cache as threads that run beside it see it, lines 31-33:          *)
(* open(self.cache_file, 'w') truncates the file, and json.dump then       *)
(* writes the document.  Between the two the file is there and holds no    *)
(* JSON document, so a _load_cache that runs then takes the except of      *)
(* lines 25-26.  No lock is held by any caller and the file is not written *)
(* to a temporary name and renamed.                                        *)
(***************************************************************************)
\* what is left of a file that two saves wrote through handles that were
\* open at the same time, each from offset 0: the text of the later one and,
\* when the earlier text was longer, its tail
GarbledFile == [state |-> "garbled", doc |-> EmptyDoc]

\* the files that json.dump of cache_data, line 33, can leave.  The file is
\* still empty when no other save wrote since this one opened it.
dump_outcomes(f, cache_data) ==
    IF f.state = "corrupt"
    THEN {_save_cache(cache_data)}
    ELSE {_save_cache(cache_data), GarbledFile}

\* _update_cache, lines 59-63, up to the open of _save_cache
UpdSaveOpen(t) ==
    /\ pc[t] = "upd_save"
    /\ file' = CorruptFile
    /\ Goto(t, "upd_write",
            [loc[t] EXCEPT !.cache_data =
                _update_cache(loc[t].cache_data, update_key(loc[t]), update_data(loc[t]), now)])
    /\ UNCHANGED <<now, mpc, mloc, monitor, rate_limiter>>

\* _save_cache, line 33, and the return of the handler
UpdSaveWrite(t) ==
    /\ pc[t] = "upd_write"
    /\ file' \in dump_outcomes(file, loc[t].cache_data)
    /\ Return(t, loc[t], Returned(loc[t].result))
    /\ UNCHANGED <<now, mpc, mloc, monitor, rate_limiter>>

\* the same when the file was unlinked since the open
UpdLostWrite(t) ==
    /\ pc[t] = "lost_write"
    /\ loc[t].op = "get_students_by_batch"
    /\ Return(t, loc[t], Returned(loc[t].result))
    /\ UNCHANGED <<file, now, mpc, mloc, monitor, rate_limiter>>

\* clear_cache_for_batch, lines 70-71, up to the open of _save_cache
CcbSaveOpen(t) ==
    /\ pc[t] = "ccb_save"
    /\ file' = CorruptFile
    /\ Goto(t, "ccb_write", loc[t])
    /\ UNCHANGED <<now, mpc, mloc, monitor, rate_limiter>>

\* line 71; loc[t].cache_data stays the document as it was loaded
CcbSaveWrite(t) ==
    /\ pc[t] = "ccb_write"
    /\ file' \in dump_outcomes(file, clear_batch(loc[t].cache_data, loc[t].batch))
    /\ Return(t, loc[t], Returned(EmptyMap))
    /\ UNCHANGED <<now, mpc, mloc, monitor, rate_limiter>>

\* auto_validate_cache, lines 140-147, up to the open of _save_cache
MonAvSaveOpen ==
    /\ mpc = "av_save"
    /\ file' = CorruptFile
    /\ mpc' = "av_write"
    /\ mloc' = [mloc EXCEPT !.cache_data = av_cleared(@, mloc.problematic_batches)]
    /\ UNCHANGED <<now, pc, loc, monitor, rate_limiter>>

MonAvSaveWrite ==
    /\ mpc = "av_write"
    /\ file' \in dump_outcomes(file, mloc.cache_data)
    /\ mpc' = "tick_done"
    /\ UNCHANGED <<mloc, now, pc, loc, monitor, rate_limiter>>

\* the same when the file was unlinked since the open
MonLostWrite ==
    /\ mpc = "av_lost"
    /\ mpc' = "tick_done"
    /\ UNCHANGED <<file, mloc, now, pc, loc, monitor, rate_limiter>>

(***************************************************************************)
(* SpecRace and SpecFetch: a request thread (w1) that fetches rosters, an  *)
(* administrator (w2) who clears, and the monitor, their steps interleaved *)
(* in every order.  SpecRace starts on a valid document that holds b2 and  *)
(* the batches list; w1 fetches b1 and nothing ever fetches b2.  SpecFetch *)
(* starts with no cache file; w1 fetches b1 and the known-empty batch, and *)
(* the upstream answers with a roster, with no record or not at all.       *)
(***************************************************************************)
RaceCleared == {"b1", "b2"}
RaceOutcomes == {Ok(GoodRS), Ok(BadRS)}

RaceFile ==
    OkFile([last_fetch_time |-> IsoTime(StartTime),
            data |-> [students |-> ("b2" :> GoodRS), batches |-> BatchesJSON]])

InitRace ==
    /\ now = StartTime
    /\ file = auto_validate_cache(RaceFile, now)
    /\ pc = [t \in Threads |-> "idle"]
    /\ loc = [t \in Threads |-> IdleLoc]
    /\ mpc = "sleep"
    /\ mloc = IdleMon
    /\ monitor = StartedMonitor
    /\ rate_limiter = NewRateLimiter

NextRace ==
    \/ GsbLookup("w1", "b1", TRUE)
    \/ \E outcome \in RaceOutcomes : GsbFetch("w1", outcome)
    \/ GsbPut("w1")
    \/ UpdLoad("w1")
    \/ UpdSaveOpen("w1")
    \/ UpdSaveWrite("w1")
    \/ UpdLostWrite("w1")
    \/ Finish("w1")
    \/ ClearAll("w2")
    \/ \E batch \in RaceCleared : CcbLoad("w2", batch)
    \/ CcbSaveOpen("w2")
    \/ CcbSaveWrite("w2")
    \/ Finish("w2")
    \/ MonHealth(TRUE)
    \/ MonAvLoad
    \/ MonAvSaveOpen
    \/ MonAvSaveWrite
    \/ MonLostWrite
    \/ MonSleep

SpecRace == InitRace /\ [][NextRace]_vars

FetchBatches == {"b1", "batch22-26"}
FetchOutcomes == {Ok(BadRS), Ok(EmptyRS), TransportFailure}

InitFetch ==
    /\ now = StartTime
    /\ file = auto_validate_cache(AbsentFile, now)
    /\ pc = [t \in Threads |-> "idle"]
    /\ loc = [t \in Threads |-> IdleLoc]
    /\ mpc = "sleep"
    /\ mloc = IdleMon
    /\ monitor = StartedMonitor
    /\ rate_limiter = NewRateLimiter

NextFetch ==
    \/ \E batch \in FetchBatches : GsbLookup("w1", batch, TRUE)
    \/ \E outcome \in FetchOutcomes : GsbFetch("w1", outcome)
    \/ GsbPut("w1")
    \/ UpdLoad("w1")
    \/ UpdSaveOpen("w1")
    \/ UpdSaveWrite("w1")
    \/ UpdLostWrite("w1")
    \/ Finish("w1")
    \/ ClearAll("w2")
    \/ CcbLoad("w2", "b1")
    \/ CcbSaveOpen("w2")
    \/ CcbSaveWrite("w2")
    \/ Finish("w2")
    \/ MonHealth(TRUE)
    \/ MonAvLoad
    \/ MonAvSaveOpen
    \/ MonAvSaveWrite
    \/ MonLostWrite
    \/ MonSleep

SpecFetch == InitFetch /\ [][NextFetch]_vars

(***************************************************************************)
(* SpecLive: Spec with a request thread that keeps running.  A handler is  *)
(* straight-line Python on its own thread and every upstream request ends, *)
(* with an answer or with the 30 s timeout of line 258, so a handler that  *)
(* has a step to take takes it.                                            *)
(***************************************************************************)
HandlerStep(t) ==
    \/ \E outcome \in StudentOutcomes(loc[t].batch) : GsbFetch(t, outcome)
    \/ GsbPut(t)
    \/ UpdLoad(t)
    \/ UpdSave(t)
    \/ \E outcome \in BatchesOutcomes : GabFetch(t, outcome)

SpecLive == Init /\ [][Next]_vars /\ WF_vars(HandlerStep("w1"))

(***************************************************************************)
(* SpecScalar: one request thread on the batches and contests categories,  *)
(* one handler at a time, beside a students category that no handler       *)
(* writes.                                                                 *)
(***************************************************************************)
ScalarInitFiles ==
    { AbsentFile,
      OkFile([last_fetch_time |-> IsoTime(0),
              data |-> [students |-> ("b1" :> GoodRS),
                        contests |-> (cache_key("b1", "c2") :> LeaderboardJSON("c2"))]]),
      OkFile([last_fetch_time |-> IsoTime(StartTime - ClockStep),
              data |-> [batches |-> BatchesJSON,
                        contests |-> (cache_key("b1", "c1") :> LeaderboardJSON("c1"))]]),
      OkFile([last_fetch_time |-> IsoTime(StartTime - ClockStep),
              data |-> [contests |-> (all_cache_key("b1") :> AllContestsJSON("b1")),
                        contest_details |-> ("c2" :> ContestDetailsJSON("c2"))]]),
      OkFile([last_fetch_time |-> NullTime,
              data |-> [contests |-> (cache_key("b1", "c1") :> LeaderboardJSON("c1"))]]) }

InitScalar ==
    /\ now = StartTime
    /\ \E f \in ScalarInitFiles : file = auto_validate_cache(f, now)
    /\ pc = [t \in Threads |-> "idle"]
    /\ loc = [t \in Threads |-> IdleLoc]
    /\ mpc = "sleep"
    /\ mloc = IdleMon
    /\ monitor = StartedMonitor
    /\ rate_limiter = NewRateLimiter

NextScalar ==
    \/ GabLookup("w1", FALSE)
    \/ \E outcome \in BatchesOutcomes : GabFetch("w1", outcome)
    \/ \E title \in Titles : GclLookup("w1", "b1", title, FALSE)
    \/ \E outcome \in LeaderboardOutcomes(loc["w1"].title) : GclFetch("w1", outcome)
    \/ GclPut("w1")
    \/ GacLookup("w1", "b1", FALSE)
    \/ \E outcome \in AllContestsOutcomes(loc["w1"].batch) : GacFetch("w1", outcome)
    \/ GacPut("w1")
    \/ \E contest_title \in Titles : GcdLookup("w1", contest_title, FALSE)
    \/ \E outcome \in ContestDetailsOutcomes(loc["w1"].title) : GcdFetch("w1", outcome)
    \/ GcdPut("w1")
    \/ UpdLoad("w1")
    \/ UpdSave("w1")
    \/ Finish("w1")
    \/ Tick(FALSE)

SpecScalar == InitScalar /\ [][NextScalar]_vars

(***************************************************************************)
(* Properties of get_students_by_batch.                                    *)
(***************************************************************************)
W == "w1"

NonEmptyOk(outcome) == outcome.kind = "ok" /\ student_count(outcome.data) > 0
EmptyOk(outcome) == outcome.kind = "ok" /\ student_count(outcome.data) = 0

\* a call of get_students_by_batch has ended after at least one upstream request
GsbDoneAfterFetch ==
    /\ pc[W] = "done"
    /\ loc[W].op = "get_students_by_batch"
    /\ loc[W].ups # <<>>

\* a valid cache holds the batch with exactly the value v
CachedAs(batch, v) ==
    /\ batch \in DOMAIN _get_from_cache(file, "students", now)
    /\ _get_from_cache(file, "students", now)[batch] = v

\* C1: for a batch outside the known-empty set that missed the cache, the
\* call returns the first non-empty upstream result, that result is its last
\* upstream request, it is what students[batch] holds on disk when the call
\* ends, and a lookup at any time within the TTL from then hits it.
C1_FirstNonEmptyWins ==
    (GsbDoneAfterFetch /\ loc[W].batch \notin known_empty_batches
       /\ \E i \in DOMAIN loc[W].ups : NonEmptyOk(loc[W].ups[i]))
    => LET ups == loc[W].ups
           last == ups[Len(ups)]
       IN /\ \A i \in 1..(Len(ups) - 1) : ~NonEmptyOk(ups[i])
          /\ NonEmptyOk(last)
          /\ loc[W].ret = Returned(last.data)
          /\ loc[W].batch \in DOMAIN Students(_load_cache(file))
          /\ Students(_load_cache(file))[loc[W].batch] = last.data
          /\ \A t \in now..(now + cache_duration - 1) :
                /\ is_cache_hit(_get_from_cache(file, "students", t), loc[W].batch)
                /\ _get_from_cache(file, "students", t)[loc[W].batch] = last.data

\* C1 witness: upstream answered [], [], [S1,S2] and the third answer came back
C1_Witness ==
    /\ GsbDoneAfterFetch
    /\ loc[W].batch = "b1"
    /\ loc[W].ups = <<Ok(EmptyRS), Ok(EmptyRS), Ok(GoodRS)>>
    /\ loc[W].ret = Returned(GoodRS)
    /\ CachedAs("b1", GoodRS)

\* C2: once the lookup has found a stale zero-record entry, the entry is gone
\* from the persisted document before the first upstream request, and stays
\* gone when every attempt fails or returns nothing.
C2_StaleEntryDeleted ==
    (/\ pc[W] \in {"gsb_fetch", "done"}
     /\ loc[W].op = "get_students_by_batch"
     /\ loc[W].batch \notin known_empty_batches
     /\ Truthy(loc[W].cached_data)
     /\ loc[W].batch \in DOMAIN loc[W].cached_data
     /\ student_count(loc[W].cached_data[loc[W].batch]) = 0
     /\ \A i \in DOMAIN loc[W].ups : ~NonEmptyOk(loc[W].ups[i]))
    => loc[W].batch \notin DOMAIN Students(_load_cache(file))

\* every attempt was used and none brought a record
Exhausted ==
    /\ GsbDoneAfterFetch
    /\ Len(loc[W].ups) = max_retries
    /\ \A i \in DOMAIN loc[W].ups : ~NonEmptyOk(loc[W].ups[i])

HadStale == Truthy(loc[W].cached_data) /\ loc[W].batch \in DOMAIN loc[W].cached_data

LastEmptyOk(ups) ==
    ups[CHOOSE i \in DOMAIN ups :
            /\ EmptyOk(ups[i])
            /\ \A j \in DOMAIN ups : EmptyOk(ups[j]) => j <= i].data

\* C3 as claimed: after three fruitless attempts the value returned is the
\* stale cached value if there was one, else the last empty upstream result
\* if there was one, else {students: []}, however the last attempt ended.
C3_FallbackOrderAsClaimed ==
    Exhausted =>
        loc[W].ret = Returned(
            IF HadStale THEN loc[W].cached_data[loc[W].batch]
            ELSE IF \E i \in DOMAIN loc[W].ups : EmptyOk(loc[W].ups[i])
                 THEN LastEmptyOk(loc[W].ups)
            ELSE EmptyRS)

\* C3 amended: after three fruitless attempts, when the last attempt raised
\* the value returned is the stale cached value if there was one and else
\* {students: []}; when the last attempt brought zero records the value
\* returned is that upstream result.
C3_FallbackByLastAttempt ==
    Exhausted =>
        loc[W].ret = Returned(
            IF loc[W].ups[max_retries].kind = "ok" THEN loc[W].ups[max_retries].data
            ELSE IF HadStale THEN loc[W].cached_data[loc[W].batch]
            ELSE EmptyRS)

\* C3 witness: the last attempt raised and the stale {} of the cache came back
C3_Witness ==
    /\ Exhausted
    /\ HadStale
    /\ loc[W].ups[max_retries].kind # "ok"
    /\ loc[W].cached_data[loc[W].batch] = NoKeyRS
    /\ loc[W].ret = Returned(NoKeyRS)

(***************************************************************************)
(* SpecConc: two request threads and the monitor run concurrently, every   *)
(* step of one interleaved with the steps of the others.  The clock stands *)
(* still and the upstream always answers.  Thread w1 asks for the students *)
(* of b1, which the upstream may answer with a malformed record; thread w2 *)
(* asks for the students of b2 and for the batch list.                     *)
(***************************************************************************)
ConcBatch(t) == IF t = "w1" THEN "b1" ELSE "b2"
ConcOutcomes(t) == IF t = "w1" THEN {Ok(GoodRS), Ok(BadRS)} ELSE {Ok(GoodRS)}

InitConc ==
    /\ now = StartTime
    /\ file = auto_validate_cache(AbsentFile, now)
    /\ pc = [t \in Threads |-> "idle"]
    /\ loc = [t \in Threads |-> IdleLoc]
    /\ mpc = "sleep"
    /\ mloc = IdleMon
    /\ monitor = StartedMonitor
    /\ rate_limiter = NewRateLimiter

NextConc ==
    \/ \E t \in Threads :
        \/ GsbLookup(t, ConcBatch(t), TRUE)
        \/ \E outcome \in ConcOutcomes(t) : GsbFetch(t, outcome)
        \/ GsbPut(t)
        \/ UpdLoad(t)
        \/ UpdSave(t)
        \/ Finish(t)
    \/ GabLookup("w2", TRUE)
    \/ GabFetch("w2", Ok(BatchesJSON))
    \/ MonHealth(TRUE)
    \/ MonAvLoad
    \/ MonAvSave
    \/ MonSleep

SpecConc == InitConc /\ [][NextConc]_vars

\* thread t has returned from a fetch-through that wrote v under students[batch]
StoredStudents(t) ==
    /\ pc[t] = "done"
    /\ loc[t].op = "get_students_by_batch"
    /\ loc[t].ups # <<>>
    /\ loc[t].ret = Returned(GoodRS)

\* thread t has returned from a fetch-through that wrote the batch list
StoredBatches(t) ==
    /\ pc[t] = "done"
    /\ loc[t].op = "get_all_batches"
    /\ loc[t].ups # <<>>
    /\ loc[t].ret.kind = "value"

\* C4: no writer's update is lost.  With the clock standing still nothing
\* expires, and the repair pass deletes only problematic batches, so a
\* healthy record set or a batch list that a completed fetch-through wrote
\* is in the persisted document for as long as the caller holds the result,
\* whatever other writers of other keys do meanwhile.
C4_NoLostUpdate ==
    \A t \in Threads :
        /\ StoredStudents(t) =>
              /\ loc[t].batch \in DOMAIN Students(_load_cache(file))
              /\ Students(_load_cache(file))[loc[t].batch] = GoodRS
        /\ StoredBatches(t) =>
              Get(_load_cache(file).data, "batches", EmptyMap) = loc[t].ret.val

(***************************************************************************)
(* Properties of the expiry policy and of cache writes, under Spec.        *)
(***************************************************************************)
NeverValid(d) == d.last_fetch_time.kind \in {"null", "unparsable"}

PastTTL(d, t) ==
    /\ d.last_fetch_time.kind = "iso"
    /\ t >= d.last_fetch_time.t + cache_duration

WithinTTL(d, t) ==
    /\ d.last_fetch_time.kind = "iso"
    /\ t < d.last_fetch_time.t + cache_duration

\* the step in which a handler of thread W starts: its cache lookup
LookupStep == pc[W] = "idle" /\ pc'[W] # "idle"

\* the step in which _update_cache of thread W saves
SaveStep == pc[W] = "upd_save" /\ pc'[W] = "done"

\* C5: a lookup made when the last put is 24 h old or older, or on a document
\* whose last_fetch_time is null or unparsable, is a miss: it reads nothing
\* from the document, goes on to the upstream request and leaves the entries
\* where they are.
C5_ExpiredIsMiss ==
    [][(LookupStep /\ (NeverValid(_load_cache(file)) \/ PastTTL(_load_cache(file), now)))
        => /\ pc'[W] \in {"gsb_fetch", "gab_fetch", "gcl_fetch", "gac_fetch", "gcd_fetch"}
           /\ loc'[W].cached_data = EmptyMap
           /\ file' = file]_vars

\* C5 witness: b2 was put at t0, is still in the file, and a lookup of b2 at
\* exactly t0 + 24 h has gone on to the upstream request
C5_Witness ==
    /\ pc[W] = "gsb_fetch"
    /\ loc[W].batch = "b2"
    /\ loc[W].ups = <<>>
    /\ _load_cache(file).last_fetch_time = IsoTime(StartTime)
    /\ now = StartTime + cache_duration
    /\ "b2" \in DOMAIN Students(_load_cache(file))
    /\ Students(_load_cache(file))["b2"] = GoodRS

\* the entries physically present in the document, as <<category, key>>; the
\* batch list is the single entry of its category
PresentEntries(d) ==
    UNION {{<<c, k>> : k \in DOMAIN d.data[c]} : c \in DOMAIN d.data \ {"batches"}}
    \cup {<<c, "">> : c \in DOMAIN d.data \cap {"batches"}}

\* get(category, key) finds the entry with its stored value
Retrievable(e) ==
    IF e[1] = "batches"
    THEN _get_from_cache(file, e[1], now) = _load_cache(file).data[e[1]]
    ELSE /\ e[2] \in DOMAIN _get_from_cache(file, e[1], now)
         /\ _get_from_cache(file, e[1], now)[e[2]] = _load_cache(file).data[e[1]][e[2]]

AllOrNothing ==
    \/ \A e \in PresentEntries(_load_cache(file)) : Retrievable(e)
    \/ \A e \in PresentEntries(_load_cache(file)) : ~Retrievable(e)

\* C6: at any time either every entry present in the document is retrievable
\* or none is, and the save of a put makes every entry of every other
\* category retrievable with its old value, however old the document was.
C6_WholeDocumentValidity ==
    /\ []AllOrNothing
    /\ [][SaveStep =>
            \A c \in DOMAIN _load_cache(file).data \ {update_key(loc[W])} :
                _get_from_cache(file', c, now') = _load_cache(file).data[c]]_vars

\* C6 witness: get_all_batches has written the batch list into a document last
\* written 24 h earlier, and students.b2 of that document is a valid entry
C6_Witness ==
    /\ pc[W] = "done"
    /\ loc[W].op = "get_all_batches"
    /\ loc[W].ups # <<>>
    /\ loc[W].cache_data.last_fetch_time = IsoTime(0)
    /\ now >= cache_duration
    /\ CachedAs("b2", GoodRS)

\* the key a handler writes inside its category: the batch in students, the
\* batch_title key in contests
written_key(l) ==
    IF l.op = "get_students_by_batch" THEN l.batch
    ELSE IF l.op = "get_all_contests" THEN all_cache_key(l.batch)
    ELSE IF l.op = "get_contest_details" THEN l.title
    ELSE cache_key(l.batch, l.title)

\* C7: the save of a cache write changes nothing but the written key and
\* last_fetch_time: every other category, and every other key of the written
\* category (students, contests), keep their value.
C7_WriteTouchesOnlyItsKey ==
    [][SaveStep =>
        LET old == _load_cache(file)
            new == _load_cache(file')
            c0 == update_key(loc[W])
        IN /\ \A c \in DOMAIN old.data \ {c0} :
                c \in DOMAIN new.data /\ new.data[c] = old.data[c]
           /\ (c0 \in DOMAIN old.data \cap {"students", "contests", "contest_details"}) =>
                \A k \in DOMAIN old.data[c0] \ {written_key(loc[W])} :
                    k \in DOMAIN new.data[c0] /\ new.data[c0][k] = old.data[c0][k]]_vars

\* C8: a lookup of a batch whose cached record set is non-empty, within the
\* TTL, ends the call at once with that record set, no upstream request and
\* the file untouched.
C8_HitReturnsCached ==
    [][(/\ LookupStep
        /\ loc'[W].op = "get_students_by_batch"
        /\ WithinTTL(_load_cache(file), now)
        /\ loc'[W].batch \in DOMAIN Students(_load_cache(file))
        /\ student_count(Students(_load_cache(file))[loc'[W].batch]) > 0)
        => /\ pc'[W] = "done"
           /\ loc'[W].ret = Returned(Students(_load_cache(file))[loc'[W].batch])
           /\ loc'[W].ups = <<>>
           /\ file' = file]_vars

\* C8 witness: a call for b1 has returned [S1,S2] without an upstream request
C8_Witness ==
    /\ pc[W] = "done"
    /\ loc[W].op = "get_students_by_batch"
    /\ loc[W].batch = "b1"
    /\ loc[W].ups = <<>>
    /\ loc[W].ret = Returned(GoodRS)

(***************************************************************************)
(* Properties of the monitor tick, under Spec.                             *)
(***************************************************************************)
\* a batch the audit calls problematic: no record outside the known-empty
\* set, or records with at least one issue
IsProblematic(b, rs) ==
    \/ student_count(rs) = 0 /\ b \notin known_empty_batches
    \/ student_count(rs) > 0
       /\ validate_student_data_quality(Get(rs, "students", <<>>), b) # <<>>

NeedsAttention(d) == \E b \in DOMAIN Students(d) : IsProblematic(b, Students(d)[b])

RepairEffect(old, new) ==
    /\ new.last_fetch_time = old.last_fetch_time
    /\ DOMAIN new.data = DOMAIN old.data
    /\ \A c \in DOMAIN old.data \ {"students"} : new.data[c] = old.data[c]
    /\ DOMAIN Students(new) =
          {b \in DOMAIN Students(old) : ~IsProblematic(b, Students(old)[b])}
    /\ DOMAIN Students(new) # DOMAIN Students(old)
    /\ \A b \in DOMAIN Students(new) : Students(new)[b] = Students(old)[b]

\* C9: a tick that finds a valid document in need of attention goes through
\* the audit and the repair pass to a save, and that save removes exactly the
\* problematic batches and changes nothing else.
C9_TickRepairs ==
    [][/\ (mpc = "sleep" /\ mpc' # "sleep" /\ NeedsAttention(_load_cache(file)))
            => mpc' = "av_load"
       /\ (mpc = "av_load" /\ mpc' # "av_load" /\ NeedsAttention(_load_cache(file))
             /\ WithinTTL(_load_cache(file), now))
            => mpc' = "av_save"
       /\ (mpc = "av_save" /\ mpc' # "av_save")
            => /\ file'.state = "ok"
               /\ RepairEffect(_load_cache(file), _load_cache(file'))]_vars

\* C9 witness: the tick has deleted the problematic b1 and kept the healthy b2
\* and the empty known-empty batch
C9_Witness ==
    /\ mpc = "tick_done"
    /\ mloc.problematic_batches = {"b1"}
    /\ DOMAIN Students(_load_cache(file)) = {"b2", "batch22-26"}
    /\ Students(_load_cache(file))["b2"] = GoodRS
    /\ student_count(Students(_load_cache(file))["batch22-26"]) = 0

\* C10: an error envelope is the last upstream request of its call, and the
\* call ends by raising.
C10_ErrorEnvelopeSurfaces ==
    \A i \in DOMAIN loc[W].ups :
        loc[W].ups[i] = GraphQLError
        => /\ i = Len(loc[W].ups)
           /\ pc[W] = "done"
           /\ loc[W].ret = Raised

(***************************************************************************)
(* Properties of the retry loop of get_students_by_batch, under Spec.      *)
(***************************************************************************)
\* the call of thread W is a get_students_by_batch that went upstream
GsbCall == loc[W].op = "get_students_by_batch" /\ loc[W].ups # <<>>

NoDataOutcome(outcome) == outcome = TransportFailure \/ EmptyOk(outcome)

\* C11: a get_students_by_batch whose upstream attempts were all transport
\* failures or empty results returns a value, never an exception, and the
\* value is a record set with no record.
C11_NoDataIsNotAnError ==
    (/\ pc[W] = "done"
     /\ GsbCall
     /\ \A i \in DOMAIN loc[W].ups : NoDataOutcome(loc[W].ups[i]))
    => /\ loc[W].ret.kind = "value"
       /\ student_count(loc[W].ret.val) = 0

\* C11 witness: three transport failures in a row, no cached entry, and the
\* call has returned the empty record set
C11_Witness ==
    /\ pc[W] = "done"
    /\ GsbCall
    /\ loc[W].ups = <<TransportFailure, TransportFailure, TransportFailure>>
    /\ loc[W].cached_data = EmptyMap
    /\ loc[W].ret = Returned(EmptyRS)

\* the spec's KnownEmptySet: the batches whose zero-record answer is expected
KnownEmptySet == {"batch22-26"}

\* the handler of thread W is past its retry loop
PastLoop == pc[W] \in {"gsb_put", "upd_load", "upd_save", "done"}

\* C12: for a batch of KnownEmptySet that missed the cache, a successful
\* upstream answer with zero records is the last upstream request of the
\* call, and the call ends with that answer returned and stored under
\* students[batch].
C12_KnownEmptyPassthrough ==
    (GsbCall /\ loc[W].batch \in KnownEmptySet)
    => /\ \A i \in DOMAIN loc[W].ups :
              EmptyOk(loc[W].ups[i]) => (i = Len(loc[W].ups) /\ PastLoop)
       /\ (pc[W] = "done" /\ EmptyOk(loc[W].ups[Len(loc[W].ups)]))
              => /\ loc[W].ret = Returned(loc[W].ups[Len(loc[W].ups)].data)
                 /\ CachedAs(loc[W].batch, loc[W].ups[Len(loc[W].ups)].data)

\* C12 witness: one upstream request for batch22-26 answered [], and the call
\* has returned it with the entry stored
C12_Witness ==
    /\ pc[W] = "done"
    /\ loc[W].op = "get_students_by_batch"
    /\ loc[W].batch = "batch22-26"
    /\ loc[W].ups = <<Ok(EmptyRS)>>
    /\ loc[W].ret = Returned(EmptyRS)
    /\ CachedAs("batch22-26", EmptyRS)

\* the lookup step of a get_students_by_batch of thread W that finds, in a
\* valid document, an entry with no record for its batch
LookupOfEmptyEntry ==
    /\ LookupStep
    /\ loc'[W].op = "get_students_by_batch"
    /\ WithinTTL(_load_cache(file), now)
    /\ loc'[W].batch \in DOMAIN Students(_load_cache(file))
    /\ student_count(Students(_load_cache(file))[loc'[W].batch]) = 0

\* C13: when a valid cache holds a zero-record entry for a batch of
\* KnownEmptySet, get_students_by_batch returns that entry as it is, with no
\* upstream request and the document left as it was (nothing deleted,
\* nothing written).
C13_KnownEmptyHit ==
    [][(LookupOfEmptyEntry /\ loc'[W].batch \in KnownEmptySet)
        => /\ pc'[W] = "done"
           /\ loc'[W].ret = Returned(Students(_load_cache(file))[loc'[W].batch])
           /\ loc'[W].ups = <<>>
           /\ file' = file]_vars

\* C13 witness: batch22-26 is cached as [] in a valid document and a call for
\* it has returned [] without an upstream request
C13_Witness ==
    /\ pc[W] = "done"
    /\ loc[W].op = "get_students_by_batch"
    /\ loc[W].batch = "batch22-26"
    /\ loc[W].ups = <<>>
    /\ loc[W].ret = Returned(EmptyRS)
    /\ WithinTTL(_load_cache(file), now)
    /\ CachedAs("batch22-26", EmptyRS)

\* thread W is inside get_students_by_batch
InGsb == loc[W].op = "get_students_by_batch" /\ pc[W] # "idle"

\* a pass of the retry loop that ends in a transport failure and is not the
\* third
FailedEarlyAttempt ==
    /\ pc[W] = "gsb_fetch"
    /\ loc'[W].ups = Append(loc[W].ups, TransportFailure)
    /\ Len(loc'[W].ups) < 3

\* C14: a get_students_by_batch never makes more than 3 upstream requests, a
\* transport failure on the first or second attempt leaves the handler in
\* the retry loop for another attempt, and every call that has started
\* returns.
C14_BoundedRetries ==
    /\ [](InGsb => Len(loc[W].ups) <= 3)
    /\ [][FailedEarlyAttempt => pc'[W] = "gsb_fetch"]_vars
    /\ \A k \in 0..1 :
          (InGsb /\ pc[W] = "gsb_fetch" /\ Len(loc[W].ups) = k + 1
                 /\ loc[W].ups[k + 1] = TransportFailure)
             ~> (InGsb /\ Len(loc[W].ups) = k + 2)
    /\ (InGsb ~> pc[W] = "done")

\* C14 witness: a call has returned after a transport failure, an empty answer
\* and a third request
C14_Witness ==
    /\ pc[W] = "done"
    /\ InGsb
    /\ Len(loc[W].ups) = 3
    /\ loc[W].ups[1] = TransportFailure
    /\ loc[W].ups[2] = Ok(EmptyRS)

\* the document as the lookup of the running call found it.  Under Spec only
\* the running handler writes the file, and its one write is the save of
\* _update_cache, which keeps the document it loaded in cache_data.
DocAtLookup ==
    IF pc[W] \in {"upd_save", "done"} /\ student_count(loc[W].result) > 0
    THEN loc[W].cache_data
    ELSE _load_cache(file)

\* the call of thread W found, in a valid document, a zero-record entry for
\* a batch outside KnownEmptySet
StaleEmptyCall ==
    /\ InGsb
    /\ loc[W].batch \notin KnownEmptySet
    /\ WithinTTL(DocAtLookup, now)
    /\ loc[W].batch \in DOMAIN Students(DocAtLookup)
    /\ student_count(Students(DocAtLookup)[loc[W].batch]) = 0

\* C15: a zero-record entry cached for a batch outside KnownEmptySet is never
\* a cache hit: the lookup goes on to the retry loop, the call does not
\* return before an upstream request, and when the first request brings a
\* non-empty result it is the only one.
C15_StaleEmptyRefetched ==
    /\ [][(LookupOfEmptyEntry /\ loc'[W].batch \notin KnownEmptySet)
            => (pc'[W] = "gsb_fetch" /\ loc'[W].ups = <<>>)]_vars
    /\ []((StaleEmptyCall /\ pc[W] = "done") => loc[W].ups # <<>>)
    /\ []((StaleEmptyCall /\ loc[W].ups # <<>> /\ NonEmptyOk(loc[W].ups[1]))
            => (Len(loc[W].ups) = 1 /\ PastLoop))

\* C15 witness: b1 was cached as [] in a valid document, and a call for b1 has
\* returned [S1,S2] after exactly one upstream request
C15_Witness ==
    /\ pc[W] = "done"
    /\ StaleEmptyCall
    /\ loc[W].batch = "b1"
    /\ loc[W].ups = <<Ok(GoodRS)>>
    /\ loc[W].ret = Returned(GoodRS)

(***************************************************************************)
(* Properties of the scalar operations, under SpecScalar.                  *)
(***************************************************************************)
ScalarOps == {"get_all_batches", "get_contest_leaderboard", "get_all_contests",
              "get_contest_details"}

FetchLabels == {"gab_fetch", "gcl_fetch", "gac_fetch", "gcd_fetch"}

InScalar == loc[W].op \in ScalarOps /\ pc[W] # "idle"

\* the category of each scalar operation and the key of its entry in it
ScalarCategory(l) ==
    IF l.op = "get_all_batches" THEN "batches"
    ELSE IF l.op = "get_contest_details" THEN "contest_details"
    ELSE "contests"

ScalarKey(l) ==
    IF l.op = "get_contest_leaderboard" THEN l.batch \o "_" \o l.title
    ELSE IF l.op = "get_all_contests" THEN l.batch \o "_all"
    ELSE l.title

\* document d, read at time t, holds a valid entry for the call l
HasEntry(d, l, t) ==
    /\ WithinTTL(d, t)
    /\ ScalarCategory(l) \in DOMAIN d.data
    /\ l.op # "get_all_batches" => ScalarKey(l) \in DOMAIN d.data[ScalarCategory(l)]

EntryOf(d, l) ==
    IF l.op = "get_all_batches" THEN d.data["batches"]
    ELSE d.data[ScalarCategory(l)][ScalarKey(l)]

\* C16: a scalar operation that finds its entry in a valid cache returns it
\* with no upstream request; otherwise it makes exactly one request; when
\* the request succeeds the call returns the answer with the answer stored
\* under its key; when it fails the call raises and no step of the call has
\* written the file.
C16_ScalarFetchThrough ==
    /\ [][(LookupStep /\ loc'[W].op \in ScalarOps)
            => /\ file' = file
               /\ loc'[W].ups = <<>>
               /\ IF HasEntry(_load_cache(file), loc'[W], now)
                  THEN /\ pc'[W] = "done"
                       /\ loc'[W].ret = Returned(EntryOf(_load_cache(file), loc'[W]))
                  ELSE pc'[W] \in FetchLabels]_vars
    /\ [][(pc[W] \in FetchLabels /\ pc'[W] # pc[W])
            => /\ file' = file
               /\ Len(loc'[W].ups) = 1
               /\ IF make_graphql_request_raises(loc'[W].ups[1])
                  THEN pc'[W] = "done" /\ loc'[W].ret = Raised
                  ELSE pc'[W] \notin FetchLabels \cup {"done"}]_vars
    /\ [](InScalar => Len(loc[W].ups) <= 1)
    /\ []((InScalar /\ pc[W] = "done" /\ loc[W].ups # <<>>
                    /\ ~make_graphql_request_raises(loc[W].ups[1]))
            => /\ loc[W].ret = Returned(loc[W].ups[1].data)
               /\ HasEntry(_load_cache(file), loc[W], now)
               /\ EntryOf(_load_cache(file), loc[W]) = loc[W].ups[1].data)

\* C16 witness: get_contest_details("c1") missed, made one request, and has
\* returned the answer, which is now the entry contest_details.c1
C16_Witness ==
    /\ pc[W] = "done"
    /\ loc[W].op = "get_contest_details"
    /\ loc[W].ups = <<Ok(ContestDetailsJSON("c1"))>>
    /\ loc[W].ret = Returned(ContestDetailsJSON("c1"))
    /\ HasEntry(_load_cache(file), loc[W], now)
    /\ EntryOf(_load_cache(file), loc[W]) = ContestDetailsJSON("c1")

(***************************************************************************)
(* Properties of the health audit.                                         *)
(***************************************************************************)
\* the monitor is inside a tick or has just ended one, and the tick has
\* written nothing: the file is the one its audit read
AuditedUnwritten == mpc \in {"av_load", "tick_done"} /\ mloc.cache_data = EmptyDoc

\* C17: a tick that finds the document invalid or expired is skipped: its
\* audit counts and classifies no batch and does not report
\* needs_attention.
C17_InvalidTickSkipped ==
    (/\ AuditedUnwritten
     /\ (NeverValid(_load_cache(file)) \/ PastTTL(_load_cache(file), now)))
    => /\ mloc.health_status.total_batches = 0
       /\ mloc.health_status.problematic_batches = {}
       /\ mloc.health # "needs_attention"

\* the nine rules of the validator, as the rule set states them
RuleViolated(i, s) ==
    CASE i = 1 -> s.leetcodeUsername = ""
      [] i = 2 -> s.name = ""
      [] i = 3 -> s.rating # <<>> /\ (s.rating[1] < 0 \/ s.rating[1] > 4000)
      [] i = 4 -> s.totalSolved # s.easySolved + s.mediumSolved + s.hardSolved
      [] i = 5 -> s.totalSolved > 3000
      [] i = 6 -> \E c \in {s.totalSolved, s.easySolved, s.mediumSolved, s.hardSolved} : c < 0
      [] i = 7 -> s.attendedContestsCount \notin 0..1000
      [] i = 8 -> s.section = ""
      [] i = 9 -> s.rollNumber = ""

ViolationCount(s) == Cardinality({i \in 1..9 : RuleViolated(i, s)})

RECURSIVE TotalViolations(_)
TotalViolations(records) ==
    IF records = <<>> THEN 0
    ELSE ViolationCount(Head(records)) + TotalViolations(Tail(records))

\* the records of batch b in the audited document
RecordsOf(b) == Get(Students(_load_cache(file))[b], "students", <<>>)

AuditedBatches == DOMAIN Students(_load_cache(file))
ExpectProblematic ==
    {b \in AuditedBatches :
        \/ Len(RecordsOf(b)) = 0 /\ b \notin KnownEmptySet
        \/ Len(RecordsOf(b)) > 0 /\ TotalViolations(RecordsOf(b)) > 0}
ExpectEmpty == {b \in AuditedBatches : Len(RecordsOf(b)) = 0 /\ b \in KnownEmptySet}
ExpectHealthy ==
    {b \in AuditedBatches : Len(RecordsOf(b)) > 0 /\ TotalViolations(RecordsOf(b)) = 0}

\* C18: the audit puts every batch of data.students in exactly one class:
\* problematic (no record and not in KnownEmptySet, or records with an
\* issue), empty (no record, in KnownEmptySet) or healthy (records, no issue).
C18_AuditClasses ==
    AuditedUnwritten
    => /\ mloc.health_status.problematic_batches = ExpectProblematic
       /\ mloc.health_status.empty_batches = ExpectEmpty
       /\ mloc.health_status.healthy_batches = Cardinality(ExpectHealthy)
       /\ mloc.health_status.total_batches = Cardinality(AuditedBatches)
       /\ mloc.health_status.problematic_batches \cap mloc.health_status.empty_batches = {}
       /\ Cardinality(mloc.health_status.problematic_batches)
            + Cardinality(mloc.health_status.empty_batches)
            + mloc.health_status.healthy_batches = mloc.health_status.total_batches

\* C18 witness: an audit of three batches, one of each class
C18_Witness ==
    /\ AuditedUnwritten
    /\ AuditedBatches = {"b1", "b2", "batch22-26"}
    /\ mloc.health_status.problematic_batches = {"b1"}
    /\ mloc.health_status.empty_batches = {"batch22-26"}
    /\ mloc.health_status.healthy_batches = 1

\* C19: overall_health is needs_attention exactly when a batch is
\* problematic; otherwise empty exactly when no batch is healthy; otherwise
\* healthy.
C19_OverallHealth ==
    AuditedUnwritten
    => mloc.health_status.overall_health =
          (IF ExpectProblematic # {} THEN "needs_attention"
           ELSE IF ExpectHealthy = {} THEN "empty"
           ELSE "healthy")

\* C19 witness: the only cached batch is the known-empty one, with no
\* record, and the audit has reported empty
C19_Witness ==
    /\ AuditedUnwritten
    /\ AuditedBatches = {"batch22-26"}
    /\ RecordsOf("batch22-26") = <<>>
    /\ mloc.health_status.overall_health = "empty"

\* the issues the audit attached to batch b
IssuesOf(b) == {e.issues : e \in {x \in mloc.health_status.data_quality_issues : x.batch = b}}

\* C20: for a batch with records the validator reports no issue exactly
\* when no record violates a rule, and otherwise one issue for each violated
\* rule of each record.
C20_OneIssuePerViolatedRule ==
    AuditedUnwritten
    => \A b \in AuditedBatches :
          Len(RecordsOf(b)) > 0
          => /\ TotalViolations(RecordsOf(b)) = 0 <=> IssuesOf(b) = {}
             /\ \A issues \in IssuesOf(b) : Len(issues) = TotalViolations(RecordsOf(b))
             /\ Cardinality(IssuesOf(b)) <= 1

\* C20 witness: b1 holds the single record with totalSolved = 10 and
\* 3 + 3 + 3 solved, and the audit has attached exactly one issue, the sum
\* mismatch
C20_Witness ==
    /\ AuditedUnwritten
    /\ "b1" \in AuditedBatches
    /\ RecordsOf("b1") = <<[S1 EXCEPT !.totalSolved = 10]>>
    /\ IssuesOf("b1") = {<<"Problem count mismatch">>}

(***************************************************************************)
(* Properties of the monitor's lifecycle, under SpecLifecycle.  Thread W   *)
(* is the one that calls start_monitoring and stop_monitoring.             *)
(***************************************************************************)
\* the step in which a call of start_monitoring or stop_monitoring begins
CallStep(op) == pc[W] = "idle" /\ pc'[W] # "idle" /\ loc'[W].op = op

\* C21: start_monitoring called while the monitor is running starts no
\* thread and leaves the monitor as it is; called while it is stopped it
\* starts exactly one loop thread and sets running; a running monitor has
\* exactly one live loop thread.
C21_StartOnceOnly ==
    /\ [][(CallStep("start_monitoring") /\ monitor.running)
            => (pc'[W] = "done" /\ monitor' = monitor)]_vars
    /\ [][(CallStep("start_monitoring") /\ ~monitor.running)
            => (pc'[W] = "start_spawn" /\ monitor' = monitor)]_vars
    /\ [][(pc[W] = "start_spawn" /\ pc'[W] # "start_spawn")
            => /\ pc'[W] = "done"
               /\ monitor'.running
               /\ Len(monitor'.loops) = Len(monitor.loops) + 1
               /\ LiveLoops(monitor') = {Len(monitor'.loops)}]_vars
    /\ [](monitor.running => Cardinality(LiveLoops(monitor)) = 1)

\* C21 witness: start_monitoring has returned on a monitor that was already
\* running, with its first loop thread the only one
C21_Witness ==
    /\ pc[W] = "done"
    /\ loc[W].op = "start_monitoring"
    /\ monitor.running
    /\ Len(monitor.loops) = 1
    /\ monitor.loops[1].ticks > 0

\* C22: when stop_monitoring has returned every loop thread has exited; a
\* tick, and so a write of the monitor to the file, happens only while the
\* monitor is running; and stop_monitoring on a stopped monitor changes
\* nothing.
C22_StopJoinsTheLoop ==
    /\ []((pc[W] = "done" /\ loc[W].op = "stop_monitoring") => LiveLoops(monitor) = {})
    /\ []((~monitor.running /\ pc[W] = "idle") => LiveLoops(monitor) = {})
    /\ [][(\E i \in DOMAIN monitor.loops : monitor'.loops[i].ticks # monitor.loops[i].ticks)
            => (monitor.running /\ ~(pc[W] = "done" /\ loc[W].op = "stop_monitoring"))]_vars
    /\ [][(CallStep("stop_monitoring") /\ ~monitor.running)
            => (monitor' = monitor /\ file' = file)]_vars

\* C22 witness: stop_monitoring has returned after a loop thread that made a
\* repairing tick has exited
C22_Witness ==
    /\ pc[W] = "done"
    /\ loc[W].op = "stop_monitoring"
    /\ Len(monitor.loops) = 1
    /\ monitor.loops[1].pc = "exited"
    /\ monitor.loops[1].last_tick = "needs_attention"

\* C23: a stop issued while the loop sleeps interrupts the sleep: a loop
\* thread of a stopped monitor is never held in time.sleep by time that is
\* still to run.
C23_StopInterruptsSleep ==
    \A i \in DOMAIN monitor.loops :
        (~monitor.running /\ monitor.loops[i].pc = "sleep") => now >= monitor.loops[i].wake_at

\* a loop thread whose last tick ended in an exception
RaisedTick(i) ==
    IF i \in DOMAIN monitor.loops THEN monitor.loops[i].last_tick = "raised" ELSE FALSE

\* the most ticks one loop thread makes before the clock stops
MaxTicks == (MaxTime - StartTime) \div ClockStep + 1

\* loop thread i sleeps after its n-th tick, which raised, and the clock can
\* still reach the end of the sleep
SleepsAfterRaise(i, n) ==
    IF i \in DOMAIN monitor.loops
    THEN /\ monitor.loops[i].last_tick = "raised"
         /\ monitor.loops[i].ticks = n
         /\ monitor.loops[i].pc = "sleep"
         /\ monitor.loops[i].wake_at <= MaxTime
    ELSE FALSE

\* loop thread i has made a tick after its n-th
TicksAfter(i, n) ==
    IF i \in DOMAIN monitor.loops THEN monitor.loops[i].ticks > n ELSE FALSE

\* the step of loop thread i in which a tick ends in an exception
RaisingTick(i) ==
    IF i \in DOMAIN monitor.loops
    THEN /\ monitor'.loops[i].ticks = monitor.loops[i].ticks + 1
         /\ monitor'.loops[i].last_tick = "raised"
    ELSE FALSE

\* C24 as stated: after a tick that raised, the next tick comes after the
\* error delay, that is, the loop sleeps error_delay (line 46).
C24_ErrorDelayAfterRaise ==
    [][\A i \in 1..MaxLoops :
          RaisingTick(i) => monitor'.loops[i].wake_at = now + error_delay]_vars

\* C24: a tick that raised does not end the loop thread: the thread sleeps
\* check_interval as after any tick, exits only when the monitor is stopped,
\* and while the monitor stays running it makes another tick.
C24_RaiseDoesNotEndLoop ==
    /\ [][\A i \in 1..MaxLoops :
            (RaisedTick(i) /\ monitor.loops[i].pc # "exited" /\ monitor'.loops[i].pc = "exited")
                => ~monitor.running]_vars
    /\ [][\A i \in 1..MaxLoops :
            RaisingTick(i) => /\ monitor'.loops[i].pc = "sleep"
                              /\ monitor'.loops[i].wake_at = now + check_interval]_vars
    /\ \A i \in 1..MaxLoops : \A n \in 1..MaxTicks :
          SleepsAfterRaise(i, n) ~> (~monitor.running \/ TicksAfter(i, n))

\* C24 witness: a loop thread has made a tick after a tick that raised
C24_Witness ==
    \E i \in DOMAIN monitor.loops :
        /\ monitor.loops[i].ticks = 2
        /\ monitor.loops[i].last_tick = "raised"
        /\ monitor.running

(***************************************************************************)
(* Properties of the administrative operations, of get_student and of the  *)
(* admin tool, under SpecAdmin.                                            *)
(***************************************************************************)
\* the step in which thread W begins a call of op
Begins(op) == pc[W] = "idle" /\ pc'[W] # "idle" /\ loc'[W].op = op

\* the labels at which a handler waits for the upstream after a miss
MissLabels == {"gsb_fetch", "gab_fetch", "gst_fetch"}

Categories == {"students", "batches", "contests", "contest_details"}

\* C25: clear_all_cache leaves no cache file; while there is none,
\* get_cache_info reports cache_exists = false and is_valid = false, no
\* category has a retrievable entry and every handler's lookup is a miss; and
\* only a put (the save of _update_cache) ends that state.
C25_ClearAllThenMiss ==
    /\ [][Begins("clear_all_cache") => (pc'[W] = "done" /\ file'.state = "absent")]_vars
    /\ [][(file.state = "absent" /\ file'.state # "absent") => pc[W] = "upd_save"]_vars
    /\ [](file.state = "absent"
            => /\ ~get_cache_info(file, now).cache_exists
               /\ ~get_cache_info(file, now).is_valid
               /\ \A key \in Categories : _get_from_cache(file, key, now) = EmptyMap)
    /\ [][(file.state = "absent" /\ Begins("get_cache_info"))
            => /\ loc'[W].ret.kind = "value"
               /\ ~loc'[W].ret.val.cache_exists
               /\ ~loc'[W].ret.val.is_valid
               /\ loc'[W].ret.val.cached_batches = EmptyMap]_vars
    /\ [][(file.state = "absent"
             /\ \E op \in {"get_students_by_batch", "get_all_batches", "get_student"} : Begins(op))
            => pc'[W] \in MissLabels]_vars

\* C25 witness: clear_all_cache has removed a file that was there, and
\* get_cache_info on what it left reports no file
C25_Witness ==
    /\ pc[W] = "done"
    /\ loc[W].op = "clear_all_cache"
    /\ loc[W].ret.val.cleared
    /\ file.state = "absent"
    /\ ~get_cache_info(file, now).cache_exists

\* the step in which clear_cache_for_batch saves
CcbSaves == pc[W] = "ccb_save" /\ pc'[W] # "ccb_save"

\* C26: clear_cache_for_batch(batch) removes data.students[batch] and
\* nothing else: last_fetch_time, the other batches and the other categories
\* keep their values; when the batch is not cached the call returns without
\* writing the file.
C26_ClearBatchFrame ==
    /\ [][Begins("clear_cache_for_batch") => file' = file]_vars
    /\ [][Begins("clear_cache_for_batch")
            => (pc'[W] = "ccb_save"
                  <=> /\ file.state = "ok"
                      /\ "students" \in DOMAIN file.doc.data
                      /\ loc'[W].batch \in DOMAIN file.doc.data.students)]_vars
    /\ [][CcbSaves
            => /\ file'.state = "ok"
               /\ file'.doc.last_fetch_time = file.doc.last_fetch_time
               /\ DOMAIN file'.doc.data = DOMAIN file.doc.data
               /\ \A key \in DOMAIN file.doc.data \ {"students"} :
                      file'.doc.data[key] = file.doc.data[key]
               /\ DOMAIN file'.doc.data.students = DOMAIN file.doc.data.students \ {loc[W].batch}
               /\ \A b \in DOMAIN file'.doc.data.students :
                      file'.doc.data.students[b] = file.doc.data.students[b]]_vars

\* C26 witness: clear_cache_for_batch has removed b2 from a document that
\* holds b1 and the batches category
C26_Witness ==
    /\ pc[W] = "done"
    /\ loc[W].op = "clear_cache_for_batch"
    /\ loc[W].batch = "b2"
    /\ file.state = "ok"
    /\ DOMAIN file.doc.data = {"students", "batches"}
    /\ DOMAIN file.doc.data.students = {"b1"}

\* the records of batch with leetcodeUsername = username that a valid
\* document holds
CachedRecords(batch, username) ==
    IF /\ file.state = "ok"
       /\ _is_cache_valid(file.doc, now)
       /\ "students" \in DOMAIN file.doc.data
       /\ batch \in DOMAIN file.doc.data.students
       /\ "students" \in DOMAIN file.doc.data.students[batch]
    THEN {r \in Range(file.doc.data.students[batch].students) : r.leetcodeUsername = username}
    ELSE {}

\* C28: get_student returns a cached record of the batch with the username,
\* without an upstream request, when the valid document holds one; otherwise
\* it makes exactly one upstream request; it never writes the file.
C28_GetStudent ==
    /\ [][Begins("get_student")
            => /\ file' = file
               /\ IF CachedRecords(loc'[W].batch, loc'[W].username) # {}
                  THEN /\ pc'[W] = "done"
                       /\ loc'[W].ret.kind = "value"
                       /\ loc'[W].ret.val.student
                             \in CachedRecords(loc'[W].batch, loc'[W].username)
                       /\ loc'[W].ups = <<>>
                  ELSE /\ pc'[W] = "gst_fetch"
                       /\ loc'[W].ups = <<>>]_vars
    /\ [][(pc[W] = "gst_fetch" /\ pc'[W] # "gst_fetch")
            => /\ file' = file
               /\ pc'[W] = "done"
               /\ Len(loc'[W].ups) = 1]_vars
    /\ []((loc[W].op = "get_student" /\ pc[W] = "done") => Len(loc[W].ups) <= 1)

\* C28 witness: get_student has returned the second record of b1's cached
\* roster
C28_Witness ==
    /\ pc[W] = "done"
    /\ loc[W].op = "get_student"
    /\ loc[W].username = "u3"
    /\ loc[W].ret.kind = "value"
    /\ loc[W].ret.val = [student |-> SBadRating]

\* C29: the info command (building the service, then get_cache_info) leaves
\* the cache file as it found it.
C29_InfoReadOnly ==
    [][((pc[W] = "idle" /\ loc'[W].command = "info") \/ pc[W] = "cli_info") => file' = file]_vars

\* C30: the test-batch command makes an upstream request for the batch
\* whatever the cache holds.
C30_TestBatchFetches ==
    (loc[W].command = "test-batch" /\ pc[W] = "done") => Len(loc[W].ups) >= 1

(***************************************************************************)
(* Storage failures, under SpecStorage.                                    *)
(***************************************************************************)
\* the file is missing, corrupt or unreadable
Unloadable == file.state # "ok"

\* C27: loading never raises: on a missing, corrupt or unreadable file the
\* document loaded is {last_fetch_time: null, data: {}}, which is not valid,
\* so a lookup is a miss and get_cache_info answers; and a save that fails
\* raises nothing: the handler returns its result.
C27_StorageFailuresSwallowed ==
    /\ [](Unloadable => (_load_cache(file) = EmptyDoc /\ ~_is_cache_valid(_load_cache(file), now)))
    /\ [][(Unloadable /\ Begins("get_students_by_batch"))
            => (pc'[W] = "gsb_fetch" /\ file' = file)]_vars
    /\ [][(Unloadable /\ pc[W] = "upd_load" /\ pc'[W] # "upd_load")
            => (pc'[W] = "upd_save" /\ loc'[W].cache_data = EmptyDoc)]_vars
    /\ [][(Unloadable /\ Begins("get_cache_info"))
            => /\ loc'[W].ret.kind = "value"
               /\ ~loc'[W].ret.val.is_valid
               /\ loc'[W].ret.val.last_fetch_time = NullTime
               /\ loc'[W].ret.val.cached_batches = EmptyMap]_vars
    /\ [][(pc[W] = "upd_save" /\ pc'[W] # "upd_save")
            => (pc'[W] = "done" /\ loc'[W].ret = Returned(loc[W].result))]_vars
    /\ [](pc[W] = "done" => loc[W].ret.kind = "value")

\* C27 witness: get_students_by_batch has returned the roster it fetched
\* although its save failed: the file it leaves does not load
C27_Witness ==
    /\ pc[W] = "done"
    /\ loc[W].op = "get_students_by_batch"
    /\ loc[W].ret = Returned(GoodRS)
    /\ Len(loc[W].ups) >= 1
    /\ file.state = "corrupt"

(***************************************************************************)
(* The audit and the repair pass compared, under SpecRepair.               *)
(***************************************************************************)
\* the document in the file
Doc == _load_cache(file)

\* the batches of the old document that the new one no longer holds
Deleted(old, new) == DOMAIN Students(old) \ DOMAIN Students(new)

\* the step of a whole repair pass (the one __init__ runs)
PassStep == pc[W] = "construct" /\ pc'[W] = "done"

\* C31: on a valid document whose records the validator can read, the
\* batches the repair pass lists, and those it deletes, are the
\* problematic_batches of the audit of the same document; when the validator
\* raises, the pass deletes nothing and the audit reports nothing.
C31_RepairMatchesAudit ==
    /\ []((_is_cache_valid(Doc, now) /\ ~health_raises(Doc))
            => av_problematic_batches(Doc, now) = get_cache_health_status(Doc).problematic_batches)
    /\ [][(PassStep /\ _is_cache_valid(Doc, now) /\ ~health_raises(Doc))
            => Deleted(Doc, _load_cache(file')) = get_cache_health_status(Doc).problematic_batches]_vars
    /\ [][(PassStep /\ health_raises(Doc)) => file' = file]_vars
    /\ [][(mpc = "av_save" /\ mpc' # "av_save")
            => Deleted(Doc, _load_cache(file')) = mloc.health_status.problematic_batches]_vars

\* C31 witness: the pass has deleted a batch with no record and a batch with
\* a defective record and kept the known-empty batch with no record
C31_Witness ==
    /\ pc[W] = "done"
    /\ loc[W].op = "auto_validate_cache"
    /\ DOMAIN Students(loc[W].cache_data) = {"b1", "b2", "batch22-26"}
    /\ Students(loc[W].cache_data)["b1"] = EmptyRS
    /\ Students(loc[W].cache_data)["b2"] = BadRS
    /\ Students(loc[W].cache_data)["batch22-26"] = EmptyRS
    /\ DOMAIN Students(Doc) = {"batch22-26"}
    /\ get_cache_health_status(loc[W].cache_data).problematic_batches = {"b1", "b2"}

\* a list without repetition
NoRepeat(list) == \A i, j \in DOMAIN list : list[i] = list[j] => i = j

\* the properties of one snapshot
SnapshotSound(h) ==
    /\ h.total_batches = h.healthy_batches + Len(h.problematic_list) + Len(h.empty_list)
    /\ Range(h.problematic_list) \cap Range(h.empty_list) = {}
    /\ NoRepeat(h.problematic_list)
    /\ NoRepeat(h.empty_list)

\* C32: in every snapshot, of the document in the file and of the one a tick
\* has audited, total_batches is healthy_batches plus the lengths of
\* problematic_batches and empty_batches, and no batch is in both lists or
\* twice in one.
C32_SnapshotCounts ==
    /\ ~health_raises(Doc) => SnapshotSound(get_cache_health_status(Doc))
    /\ mloc.health \notin {"none", "error"} => SnapshotSound(mloc.health_status)

\* C32 witness: a tick has audited three batches: one healthy, one
\* problematic and one empty
C32_Witness ==
    /\ mpc = "av_load"
    /\ mloc.health_status.total_batches = 3
    /\ mloc.health_status.healthy_batches = 1
    /\ Len(mloc.health_status.problematic_list) = 1
    /\ Len(mloc.health_status.empty_list) = 1

\* C33: after a repair pass on a valid document the audit does not report
\* needs_attention and a second pass leaves the file as it is; the same holds
\* after the save of a tick's repair.
C33_RepairConverges ==
    /\ [][(PassStep /\ _is_cache_valid(Doc, now))
            => /\ health_raises(_load_cache(file'))
                    \/ get_cache_health_status(_load_cache(file')).overall_health # "needs_attention"
               /\ auto_validate_cache(file', now) = file']_vars
    /\ [][(mpc = "av_save" /\ mpc' # "av_save")
            => /\ ~health_raises(_load_cache(file'))
               /\ get_cache_health_status(_load_cache(file')).overall_health # "needs_attention"
               /\ auto_validate_cache(file', now) = file']_vars
    /\ [][(mpc = "tick_done" /\ mloc.problematic_batches # {} /\ mpc' = "sleep")
            => get_cache_health_status(Doc).overall_health # "needs_attention"]_vars

\* C33 witness: a second pass has run on the document a first pass repaired,
\* and the audit of it reports healthy
C33_Witness ==
    /\ pc[W] = "done"
    /\ loc[W].op = "auto_validate_cache"
    /\ loc[W].cache_data = Doc
    /\ _is_cache_valid(Doc, now)
    /\ DOMAIN Students(Doc) = {"b2"}
    /\ get_cache_health_status(Doc).overall_health = "healthy"
    /\ now = StartTime + ClockStep

(***************************************************************************)
(* What the fetch path stores, under SpecFetch.                            *)
(***************************************************************************)
\* every batch of document d outside KnownEmptySet holds a record
NoEmptyEntry(d) ==
    \A b \in DOMAIN Students(d) \ KnownEmptySet : student_count(Students(d)[b]) >= 1

\* C34: starting with no cache, whatever the upstream answers and however
\* fetches, clears and ticks interleave, every batch outside KnownEmptySet
\* in the file's document, and in every document a thread is about to write,
\* holds at least one record.
C34_NoEmptyEntryStored ==
    /\ NoEmptyEntry(Doc)
    /\ pc[W] = "upd_write" => NoEmptyEntry(loc[W].cache_data)
    /\ pc["w2"] = "ccb_write" => NoEmptyEntry(clear_batch(loc["w2"].cache_data, loc["w2"].batch))
    /\ mpc = "av_write" => NoEmptyEntry(mloc.cache_data)

\* C34 witness: the upstream answered three times with no record for b1,
\* the call returned it, and the file holds the known-empty batch with no
\* record and no entry for b1
C34_Witness ==
    /\ pc[W] = "done"
    /\ loc[W].batch = "b1"
    /\ loc[W].ups = <<Ok(EmptyRS), Ok(EmptyRS), Ok(EmptyRS)>>
    /\ loc[W].ret = Returned(EmptyRS)
    /\ DOMAIN Students(Doc) = {"batch22-26"}
    /\ student_count(Students(Doc)["batch22-26"]) = 0

(***************************************************************************)
(* Loads and saves that run side by side, under SpecRace.                  *)
(***************************************************************************)
\* a step in which a thread or the monitor loads the cache file
LoadStep ==
    \/ \E t \in Threads :
         \/ pc[t] = "idle" /\ pc'[t] # "idle"
              /\ loc'[t].op \in {"get_students_by_batch", "clear_cache_for_batch"}
         \/ pc[t] \in {"gsb_put", "upd_load"} /\ pc'[t] # pc[t]
    \/ mpc \in {"sleep", "av_load"} /\ mpc' # mpc

\* C37: a load never runs on a file that a save has opened and not yet
\* written, so that it always reads the document before the save or the
\* one after it.
C37_LoadSeesWholeDocument ==
    [][LoadStep => file.state # "corrupt"]_vars

\* the administrator's clear of b2, or of everything, has completed
ClearedB2 ==
    /\ pc["w2"] = "done"
    /\ \/ loc["w2"].op = "clear_all_cache" /\ loc["w2"].ret.val.cleared
       \/ loc["w2"].op = "clear_cache_for_batch" /\ loc["w2"].batch = "b2"
            /\ "b2" \in DOMAIN Students(loc["w2"].cache_data)

\* C38: once a clear that removed b2 has completed, b2, which nothing
\* fetches, is not in the document of the file.
C38_ClearIsDurable ==
    ClearedB2 => "b2" \notin DOMAIN Students(Doc)

(***************************************************************************)
(* Concurrent start and stop, under SpecStartStop.                         *)
(***************************************************************************)
\* C35: at no time are two loop threads alive, whatever the interleaving
\* of start and stop calls.
C35_AtMostOneLoop ==
    Cardinality(LiveLoops(monitor)) <= 1

\* thread t is blocked in the join of stop_monitoring on loop thread i,
\* which is at the test of its while, its tick and its sleep over
JoinedAtCheck(t, i) ==
    /\ pc[t] = "stop_join"
    /\ loc[t].thread = i
    /\ i \in DOMAIN monitor.loops
    /\ monitor.loops[i].pc = "check"

\* C36: a stop that waits in join returns once the loop it joins has
\* finished its tick and its sleep: back at the test of its while, that
\* loop runs no further tick, so that its next step is its exit.
C36_StopReturns ==
    [][\A t \in Threads : \A i \in 1..MaxLoops :
          JoinedAtCheck(t, i) => monitor'.loops[i].pc # "sleep"]_vars

(***************************************************************************)
(* The rate limiter, under SpecLimiter.                                    *)
(***************************************************************************)
\* the times of list that lie in the window of length w starting at a
InWindow(list, a, w) == {i \in DOMAIN list : a <= list[i] /\ list[i] < a + w}

\* a call of check_rate_limit returns False
Rejects == pc["w1"] = "idle" /\ pc'["w1"] = "done" /\ loc'["w1"].ret = Returned(FALSE)

\* C39: for every client, the requests admitted in any one-minute window
\* are at most MAX_REQUESTS_PER_MINUTE and those in any one-day window at
\* most MAX_REQUESTS_PER_DAY, and a call that rejects adds no time to
\* either list.
C39_WindowLimits ==
    /\ [](\A c \in Clients : \A a \in 0..MaxTime :
            /\ Cardinality(InWindow(rate_limiter.admitted[c], a, minute_window))
                 <= MAX_REQUESTS_PER_MINUTE
            /\ Cardinality(InWindow(rate_limiter.admitted[c], a, day_window))
                 <= MAX_REQUESTS_PER_DAY)
    /\ [][Rejects => \A c \in Clients :
            /\ Len(rate_limiter'.requests_per_minute[c]) <= Len(rate_limiter.requests_per_minute[c])
            /\ Len(rate_limiter'.requests_per_day[c]) <= Len(rate_limiter.requests_per_day[c])
            /\ rate_limiter'.admitted[c] = rate_limiter.admitted[c]]_vars

====
